---- MODULE Spec2Model ----
(***************************************************************************)
(* pufferwatch: the log grammar (parse.rs), the Log model (log.rs), the    *)
(* three LogSource variants (source.rs) and the update step of the render  *)
(* loop (startup.rs).                                                      *)
(*                                                                         *)
(* Text is a sequence of one-character strings, so that the parser works   *)
(* on characters exactly as the nom combinators do.                        *)
(***************************************************************************)
EXTENDS Integers, Sequences, FiniteSets, TLC

(* ------------------------------------------------------------------ *)
(* Bounds of the model                                                 *)
(* ------------------------------------------------------------------ *)

\* lines the reader thread forwards in one run of the Streamed source
MaxLines == 3
\* changes of the watched file in one run of the Followed source
MaxChanges == 4

(* ------------------------------------------------------------------ *)
(* Characters and small helpers                                        *)
(* ------------------------------------------------------------------ *)

Digits == {"0", "1", "2", "3", "4", "5", "6", "7", "8", "9"}

Spaces == {" ", "\t"}

NL == "\n"

MinOf(S) == CHOOSE x \in S : \A y \in S : x <= y

\* length of the longest prefix of i whose characters are all in S
SpanOf(i, S) ==
    LET bad == {k \in 1..Len(i) : i[k] \notin S}
    IN  IF bad = {} THEN Len(i) ELSE MinOf(bad) - 1

\* length of the longest prefix of i that holds no character of S
SpanTill(i, S) ==
    LET bad == {k \in 1..Len(i) : i[k] \in S}
    IN  IF bad = {} THEN Len(i) ELSE MinOf(bad) - 1

Drop(i, n) == SubSeq(i, n + 1, Len(i))

Take(i, n) == SubSeq(i, 1, n)

\* nom tag(t): does the input start with t
HasTag(i, t) == Len(i) >= Len(t) /\ Take(i, Len(t)) = t

DigitVal(c) ==
    CASE c = "0" -> 0 [] c = "1" -> 1 [] c = "2" -> 2 [] c = "3" -> 3
      [] c = "4" -> 4 [] c = "5" -> 5 [] c = "6" -> 6 [] c = "7" -> 7
      [] c = "8" -> 8 [] c = "9" -> 9

RECURSIVE DecimalValue(_)
DecimalValue(s) ==
    IF s = <<>> THEN 0
    ELSE 10 * DecimalValue(Take(s, Len(s) - 1)) + DigitVal(s[Len(s)])

\* largest value of the u8 fields of Timestamp
U8Max == 255

(* ------------------------------------------------------------------ *)
(* ast.rs                                                              *)
(* ------------------------------------------------------------------ *)

Level == {"Trace", "Debug", "Info", "Alert", "Warn", "Error"}

Timestamp(h, m, s) == [hour |-> h, minute |-> m, second |-> s]

Message(ts, lvl, src, cts) ==
    [timestamp |-> ts, level |-> lvl, source |-> src, contents |-> cts]

(* ------------------------------------------------------------------ *)
(* parse.rs                                                            *)
(* ------------------------------------------------------------------ *)

Fail == [ok |-> FALSE]

\* a conversion that keeps the low eight bits of the value
U8OfWrapping(v, rest) == [ok |-> TRUE, val |-> v % (U8Max + 1), rest |-> rest]

\* str::parse::<u8>() of a digit run: an error above 255
U8Of(v, rest) ==
    IF v > U8Max THEN Fail ELSE [ok |-> TRUE, val |-> v, rest |-> rest]

\* digit1: at least one digit
Digit1(i, n) ==
    IF n = 0 THEN Fail ELSE U8Of(DecimalValue(Take(i, n)), Drop(i, n))

\* digit1 followed by str::parse::<u8>()
ParseU8(i) == Digit1(i, SpanOf(i, Digits))

\* the seconds of tuple((digit1, tag(":"), digit1, tag(":"), digit1))
TsSecond(h, m, ss) ==
    IF ~ss.ok THEN Fail
    ELSE [ok |-> TRUE, val |-> Timestamp(h, m, ss.val), rest |-> ss.rest]

\* the minutes, and the ":" after them
TsMinute(h, mm) ==
    IF ~mm.ok THEN Fail
    ELSE IF ~HasTag(mm.rest, <<":">>) THEN Fail
    ELSE TsSecond(h, mm.val, ParseU8(Drop(mm.rest, 1)))

\* the hours, and the ":" after them
TsHour(hh) ==
    IF ~hh.ok THEN Fail
    ELSE IF ~HasTag(hh.rest, <<":">>) THEN Fail
    ELSE TsMinute(hh.val, ParseU8(Drop(hh.rest, 1)))

\* tuple((digit1, tag(":"), digit1, tag(":"), digit1)) under map_res
ParseTs(i) == TsHour(ParseU8(i))

\* the six literal keywords, tried in the order of the alt
LevelTags ==
    << [tag |-> <<"T", "R", "A", "C", "E">>, level |-> "Trace"],
       [tag |-> <<"D", "E", "B", "U", "G">>, level |-> "Debug"],
       [tag |-> <<"I", "N", "F", "O">>,      level |-> "Info"],
       [tag |-> <<"A", "L", "E", "R", "T">>, level |-> "Alert"],
       [tag |-> <<"W", "A", "R", "N">>,      level |-> "Warn"],
       [tag |-> <<"E", "R", "R", "O", "R">>, level |-> "Error"] >>

\* the first keyword of the alt that matches, if any
LevelOf(i, hits) ==
    IF hits = {} THEN Fail
    ELSE [ok |-> TRUE, val |-> LevelTags[MinOf(hits)].level,
          rest |-> Drop(i, Len(LevelTags[MinOf(hits)].tag))]

ParseLevel(i) ==
    LevelOf(i, {k \in 1..Len(LevelTags) : HasTag(i, LevelTags[k].tag)})

\* space0
SkipSpaces(i) == Drop(i, SpanOf(i, Spaces))

\* contents: take_till('\n'), and the Message built by the final map
MsgContents(ts, lvl, src, i, c) ==
    [ok |-> TRUE, val |-> Message(ts, lvl, src, Take(i, c)), rest |-> Drop(i, c)]

\* source: take_till1(']'), then tag("]") and the tag(" ") of separated_pair
MsgSource(ts, lvl, i, n) ==
    IF n = 0 THEN Fail
    ELSE IF ~HasTag(Drop(i, n), <<"]", " ">>) THEN Fail
    ELSE MsgContents(ts, lvl, Take(i, n), Drop(i, n + 2),
                     SpanTill(Drop(i, n + 2), {NL}))

\* preceded(space1, source)
MsgLevel(ts, lv) ==
    IF ~lv.ok THEN Fail
    ELSE IF SpanOf(lv.rest, Spaces) = 0 THEN Fail
    ELSE MsgSource(ts, lv.val, SkipSpaces(lv.rest),
                   SpanTill(SkipSpaces(lv.rest), {"]"}))

\* preceded(space1, level)
MsgTs(ts) ==
    IF ~ts.ok THEN Fail
    ELSE IF SpanOf(ts.rest, Spaces) = 0 THEN Fail
    ELSE MsgLevel(ts.val, ParseLevel(SkipSpaces(ts.rest)))

\* parse_message: "[" space0 ts space1 level space1 source "]" " " contents
parse_message(i) ==
    IF ~HasTag(i, <<"[">>) THEN Fail
    ELSE MsgTs(ParseTs(SkipSpaces(Drop(i, 1))))

\* the second branch of the alt: take_till('\n'), then tag("\n")
ContinuedLine(i, n) ==
    IF n < Len(i)
    THEN [ok |-> TRUE, start |-> FALSE, text |-> Take(i, n),
          rest |-> Drop(i, n + 1)]
    ELSE Fail

\* alt((parse_message, take_till('\n'))) of which m is the first branch,
\* terminated by tag("\n")
LineOf(i, m) ==
    IF m.ok
    THEN IF HasTag(m.rest, <<NL>>)
         THEN [ok |-> TRUE, start |-> TRUE, msg |-> m.val,
               rest |-> Drop(m.rest, 1)]
         ELSE Fail
    ELSE ContinuedLine(i, SpanTill(i, {NL}))

\* terminated(alt((parse_message, take_till('\n'))), tag("\n"))
ParseLine(i) == LineOf(i, parse_message(i))

\* ParsedLine::Continued: the text is appended to the last message
Continue(msgs, text) ==
    [msgs EXCEPT ![Len(msgs)].contents = (@ \o <<NL>>) \o text]

\* a fold closure for which a header replaces the messages found so far
FoldStepKeepLast(acc, cur) ==
    IF ~acc.ok THEN acc
    ELSE IF cur.start THEN [ok |-> TRUE, msgs |-> <<cur.msg>>]
    ELSE IF acc.msgs = <<>> THEN [ok |-> FALSE, msgs |-> <<>>]
    ELSE [ok |-> TRUE, msgs |-> Continue(acc.msgs, cur.text)]

\* the fold closure of parse_log; acc is Ok(Vec) or Err
FoldStep(acc, cur) ==
    IF ~acc.ok THEN acc
    ELSE IF cur.start THEN [ok |-> TRUE, msgs |-> Append(acc.msgs, cur.msg)]
    ELSE IF acc.msgs = <<>> THEN [ok |-> FALSE, msgs |-> <<>>]
    ELSE [ok |-> TRUE, msgs |-> Continue(acc.msgs, cur.text)]

RECURSIVE FoldMany0(_, _)

\* one round of fold_many0: the first line parser error ends the fold
FoldNext(i, acc, cur) ==
    IF ~cur.ok THEN [acc |-> acc, rest |-> i]
    ELSE FoldMany0(cur.rest, FoldStep(acc, cur))

\* fold_many0: stops at the first line parser error and keeps the accumulator
FoldMany0(i, acc) == FoldNext(i, acc, ParseLine(i))

\* map_res(parse_log, |messages| messages): the folded Err becomes the error
FoldResult(r) == [ok |-> r.acc.ok, messages |-> r.acc.msgs, rest |-> r.rest]

\* parse_log; the remaining input is returned, not checked
parse_log(i) == FoldResult(FoldMany0(i, [ok |-> TRUE, msgs |-> <<>>]))

\* let (_, messages) = ..: the remaining input is dropped
DropRest(r) == [ok |-> r.ok, messages |-> r.messages]

\* parse: complete(parse_log), the remainder dropped
parse(contents) == DropRest(parse_log(contents))

(* ------------------------------------------------------------------ *)
(* log.rs                                                              *)
(* ------------------------------------------------------------------ *)

\* the by_source index of Log::parse: group_by groups runs of neighbouring
\* messages of one source, and collecting into a HashMap keeps, for each
\* source, the last run; a run is held as the positions of its messages
BySource(msgs) ==
    [s \in {msgs[k].source : k \in 1..Len(msgs)} |->
        LET hi == CHOOSE k \in 1..Len(msgs) :
                      /\ msgs[k].source = s
                      /\ \A j \in (k + 1)..Len(msgs) : msgs[j].source # s
            lo == MinOf({k \in 1..hi : \A j \in k..hi : msgs[j].source = s})
        IN  [n \in 1..(hi - lo + 1) |-> lo + n - 1]]

\* Log::empty
LogEmpty == [raw |-> <<>>, messages |-> <<>>, by_source |-> BySource(<<>>)]

\* a builder that indexes the messages before the last one is pushed
LogBuildIndexShort(raw, r) ==
    IF r.ok
    THEN [ok |-> TRUE,
          log |-> [raw |-> raw, messages |-> r.messages,
                   by_source |-> BySource(SubSeq(r.messages, 1,
                                                 Len(r.messages) - 1))]]
    ELSE [ok |-> FALSE, log |-> LogEmpty]

\* LogTryBuilder.try_build: nothing is built when the parse failed
LogBuild(raw, r) ==
    IF r.ok
    THEN [ok |-> TRUE,
          log |-> [raw |-> raw, messages |-> r.messages,
                   by_source |-> BySource(r.messages)]]
    ELSE [ok |-> FALSE, log |-> LogEmpty]

\* Log::parse: the Log owns raw
LogParse(raw) == LogBuild(raw, parse(raw))

\* Log::sources
Sources(l) == DOMAIN l.by_source

(* ------------------------------------------------------------------ *)
(* widgets/formatted_log.rs, widgets/raw_log.rs, widgets/root.rs       *)
(* ------------------------------------------------------------------ *)

\* the ASCII characters from " " (byte 32) to "_" (byte 95)
Printable ==
    <<
       " ", "!", "\"", "#", "$", "%", "&", "'", "(", ")", "*", "+",
       ",", "-", ".", "/", "0", "1", "2", "3", "4", "5", "6", "7",
       "8", "9", ":", ";", "<", "=", ">", "?", "@", "A", "B", "C",
       "D", "E", "F", "G", "H", "I", "J", "K", "L", "M", "N", "O",
       "P", "Q", "R", "S", "T", "U", "V", "W", "X", "Y", "Z", "[",
       "\\", "]", "^", "_" >>

\* the ASCII characters from "a" (byte 97) to "~" (byte 126)
PrintableLower ==
    <<
       "a", "b", "c", "d", "e", "f", "g", "h", "i", "j", "k", "l",
       "m", "n", "o", "p", "q", "r", "s", "t", "u", "v", "w", "x",
       "y", "z", "{", "|", "}", "~" >>

\* the position of a character in a sequence that holds it
IndexIn(seq, c) == CHOOSE k \in 1..Len(seq) : seq[k] = c

\* the UTF-8 byte of an ASCII character; str compares byte by byte
ByteOf(c) ==
    CASE c = "\t" -> 9
      [] c = NL -> 10
      [] c = "\r" -> 13
      [] (\E k \in 1..Len(PrintableLower) : PrintableLower[k] = c) -> 96 + IndexIn(PrintableLower, c)
      [] OTHER -> 31 + IndexIn(Printable, c)

\* a < b for &str: the first differing byte decides, a proper prefix is less
StrLess(a, b) ==
    \E k \in 1..Len(b) :
        /\ \A j \in 1..(k - 1) : j <= Len(a) /\ a[j] = b[j]
        /\ (k > Len(a) \/ ByteOf(a[k]) < ByteOf(b[k]))

RECURSIVE SortedOf(_)

SortedFrom(S, least) == <<least>> \o SortedOf(S \ {least})

\* the names in descending order
SortedOfDescending(S) ==
    IF S = {} THEN <<>>
    ELSE SortedFrom(S, CHOOSE x \in S : \A y \in S \ {x} : StrLess(y, x))

\* Itertools::sorted over distinct strings
SortedOf(S) ==
    IF S = {} THEN <<>>
    ELSE SortedFrom(S, CHOOSE x \in S : \A y \in S \ {x} : StrLess(x, y))

\* a line of str::lines: a trailing "\r" is removed
StripCR(l) ==
    IF l # <<>> /\ l[Len(l)] = "\r" THEN Take(l, Len(l) - 1) ELSE l

RECURSIVE StrLines(_)

LineThen(s, n) == <<StripCR(Take(s, n))>> \o StrLines(Drop(s, n + 1))

\* str::lines: the text between line feeds; an empty text has no line and a
\* final line feed does not open a further line
StrLines(s) == IF s = <<>> THEN <<>> ELSE LineThen(s, SpanTill(s, {NL}))

\* Level::ALL
LevelAll == <<"Trace", "Debug", "Info", "Alert", "Warn", "Error">>

\* a lookup that takes a key without an entry as disabled
FlagOrOff(map, key) ==
    /\ \E k \in 1..Len(map) : map[k].key = key
    /\ map[CHOOSE k \in 1..Len(map) : map[k].key = key].enabled

\* IndexMap::get of a map held as a sequence of entries, unwrap_or(true)
FlagOr(map, key) ==
    IF \E k \in 1..Len(map) : map[k].key = key
    THEN map[CHOOSE k \in 1..Len(map) : map[k].key = key].enabled
    ELSE TRUE

\* LogFilters::level_enabled
level_enabled(filters, level) == FlagOr(filters.levels, level)

\* LogFilters::source_enabled
source_enabled(filters, source) == FlagOr(filters.sources, source)

\* a filter that looks at the level flags only
applyLevelsOnly(filters, l) ==
    LET Keep(k) == level_enabled(filters, l.messages[k].level)
    IN  SelectSeq([k \in 1..Len(l.messages) |-> k], Keep)

\* LogFilters::apply: the messages that pass, as positions in log.messages()
apply(filters, l) ==
    LET Keep(k) == /\ level_enabled(filters, l.messages[k].level)
                   /\ source_enabled(filters, l.messages[k].source)
    IN  SelectSeq([k \in 1..Len(l.messages) |-> k], Keep)

\* the entries of filters.sources for sorted source names: each name with
\* the flag it has in the entries held before, enabled when it has none
SourceEntries(names, old) ==
    [n \in 1..Len(names) |-> [key |-> names[n], enabled |-> FlagOr(old, names[n])]]

\* a with_log that enables every source of the new Log
FiltersWithLogReset(filters, l) ==
    [levels |-> filters.levels,
     sources |-> SourceEntries(SortedOf(Sources(l)), <<>>)]

\* LogFilters::with_log
FiltersWithLog(filters, l) ==
    [levels |-> filters.levels,
     sources |-> SourceEntries(SortedOf(Sources(l)), filters.sources)]

\* the FormattedLine values of one message: Start, then Continued
MessageLines(k, ls) ==
    [n \in 1..Len(ls) |-> [start |-> n = 1, message |-> k, line |-> ls[n]]]

RECURSIVE FormatFrom(_, _)
FormatFrom(l, kept) ==
    IF kept = <<>> THEN <<>>
    ELSE MessageLines(Head(kept), StrLines(l.messages[Head(kept)].contents))
             \o FormatFrom(l, Tail(kept))

\* source_width of format_lines: the longest source among the messages kept
SourceWidth(l, kept) ==
    IF kept = <<>> THEN 0
    ELSE CHOOSE w \in {Len(l.messages[kept[n]].source) : n \in 1..Len(kept)} :
             \A n \in 1..Len(kept) : Len(l.messages[kept[n]].source) <= w

\* FormattedLogState::format_lines
format_lines(l, filters) ==
    [lines |-> FormatFrom(l, apply(filters, l)),
     source_width |-> SourceWidth(l, apply(filters, l))]

\* FiltersListState::levels and FiltersListState::sources; NoList is None
NoList == [open |-> FALSE, selected |-> 0, source |-> "Levels"]

ListLevels == [open |-> TRUE, selected |-> 0, source |-> "Levels"]

ListSources == [open |-> TRUE, selected |-> 0, source |-> "Sources"]

\* the filters of FormattedLogState::new: every level and source enabled
NewFilters(l) ==
    [levels |-> [n \in 1..Len(LevelAll) |-> [key |-> LevelAll[n], enabled |-> TRUE]],
     sources |-> SourceEntries(SortedOf(Sources(l)), <<>>)]

\* Offset::default
Origin == [x |-> 0, y |-> 0]

\* LazyParagraphState::new
ParagraphNew(n) == [lines |-> n, offset |-> Origin]

\* a LazyParagraphState of n lines at an offset
ParagraphAt(n, offset) == [lines |-> n, offset |-> offset]

\* usize::saturating_sub
SaturatingSub(a, b) == IF a > b THEN a - b ELSE 0

\* LazyParagraphState::scroll_down
scroll_down(st, n) ==
    [st EXCEPT !.offset.y =
        IF @ + n > st.lines THEN SaturatingSub(st.lines, 1) ELSE @ + n]

\* LazyParagraphState::scroll_up
scroll_up(st, n) == [st EXCEPT !.offset.y = SaturatingSub(@, n)]

\* State::update of LazyParagraphState
ParagraphUpdate(st, key) ==
    CASE key = "Up" -> scroll_up(st, 1)
      [] key = "Down" -> scroll_down(st, 1)
      [] key = "Left" -> [st EXCEPT !.offset.x = SaturatingSub(@, 1)]
      [] key = "Right" -> [st EXCEPT !.offset.x = @ + 1]
      [] key = "PageUp" -> scroll_up(st, 10)
      [] key = "PageDown" -> scroll_down(st, 10)
      [] key = "Home" -> [st EXCEPT !.offset.y = 0]
      [] key = "End" -> [st EXCEPT !.offset.y = SaturatingSub(st.lines, 1)]
      [] OTHER -> st

\* LazyParagraph::render in an inner area of the given height:
\* state.offset.y = (offset.y + height).min(lines) - height, saturating
ParagraphRender(st, height) ==
    [st EXCEPT !.offset.y =
        SaturatingSub(IF @ + height > st.lines THEN st.lines ELSE @ + height,
                      height)]

\* the integers up to 2^24 are f32 values; above, up to 2^25, every second
\* integer is
F32Exact == 16777216

\* `n as f32` for n below 2^25: the nearest f32 value, of two equally near
\* ones the one with the even mantissa
ToF32(n) ==
    IF n <= F32Exact \/ n % 2 = 0 THEN n
    ELSE IF (n + 1) % 4 = 0 THEN n + 1 ELSE n - 1

\* Scrollbar::new: the three assertions on the visible range and the maximum
ScrollbarNew(start, end, max) ==
    [drawn |-> TRUE, start |-> start, end |-> end, max |-> max,
     panicked |-> ~(start >= 0 /\ end <= max /\ start <= end)]

\* no scrollbar is drawn
NoScrollbar ==
    [drawn |-> FALSE, start |-> 0, end |-> 0, max |-> 0, panicked |-> FALSE]

\* the scrollbar of LazyParagraph::render for the state it has clamped:
\* Scrollbar::new(y..(y + height as f32), state.lines as f32) with
\* y = state.offset.y as f32, when state.lines > height
ScrollbarOf(st, height) ==
    IF st.lines > height
    THEN ScrollbarNew(ToF32(st.offset.y),
                      ToF32(ToF32(st.offset.y) + ToF32(height)),
                      ToF32(st.lines))
    ELSE NoScrollbar

\* a FormattedLogState from its parts
FormattedState(filters, list, fl, offset) ==
    [lines |-> fl.lines, source_width |-> fl.source_width, filters |-> filters,
     filters_list_state |-> list,
     paragraph_state |-> ParagraphAt(Len(fl.lines), offset)]

\* FormattedLogState::new
FormattedNew(l) ==
    FormattedState(NewFilters(l), NoList, format_lines(l, NewFilters(l)), Origin)

\* a with_log that keeps the lines formatted from the Log held before
FormattedWithLogStale(st, l) ==
    [st EXCEPT !.filters = FiltersWithLog(st.filters, l)]

\* FormattedLogState::with_log
FormattedWithLog(st, l) ==
    FormattedState(FiltersWithLog(st.filters, l), st.filters_list_state,
                   format_lines(l, FiltersWithLog(st.filters, l)),
                   st.paragraph_state.offset)

\* an apply_filter that keeps the lines formatted under the filters held before
apply_filter_stale(st, l) == st

\* FormattedLogState::apply_filter
apply_filter(st, l) ==
    FormattedState(st.filters, st.filters_list_state,
                   format_lines(l, st.filters), Origin)

\* RawLogState::new
RawNew(l) ==
    [lines |-> StrLines(l.raw),
     paragraph_state |-> ParagraphNew(Len(StrLines(l.raw)))]

\* RawLogState::with_log
RawWithLog(st, l) ==
    [lines |-> StrLines(l.raw),
     paragraph_state |->
         ParagraphAt(Len(StrLines(l.raw)), st.paragraph_state.offset)]

\* CommandInputState::default, and whether RootState holds one: the field is
\* Some only when a child's stdin was handed to RootState::new
\* submitted is the queue of the commands entered; stdin is the text that the
\* last update of RootState wrote to the child's stdin
CommandNew(stdin) ==
    [some |-> stdin, text |-> <<>>, cursor |-> 0, edit_mode |-> "Insert",
     submitted |-> <<>>, stdin |-> <<>>, panicked |-> FALSE]

\* the keys KeyCode::Char(c) and their characters; "e-acute" is the key of
\* the character U+00E9, which takes two bytes in a String
CharKeys == {"f", "i", "c", "Space", "e-acute"}

CharOf(key) ==
    IF key = "Space" THEN " " ELSE IF key = "e-acute" THEN "U+00E9" ELSE key

\* char::len_utf8 of the characters typed
LenUtf8(c) == IF c = "U+00E9" THEN 2 ELSE 1

\* String::len: the length of the text in bytes
RECURSIVE StringLen(_)
StringLen(text) ==
    IF text = <<>> THEN 0 ELSE LenUtf8(Head(text)) + StringLen(Tail(text))

\* String::is_char_boundary for an index below the length
IsCharBoundary(text, idx) ==
    \E k \in 0..Len(text) : StringLen(Take(text, k)) = idx

\* String::remove(idx) at a character boundary: the character that starts at
\* the byte idx is taken out
StringRemove(text, idx) ==
    [k \in 1..(Len(text) - 1) |->
        IF StringLen(Take(text, k)) <= idx THEN text[k] ELSE text[k + 1]]

\* Iterator::take(n) over the characters
TakeChars(text, n) == IF n >= Len(text) THEN text ELSE Take(text, n)

\* State::update of CommandInputState: Right, End and Delete compare and set
\* the cursor with text.len(), Delete removes at the byte index cursor and
\* panics when that is no character boundary
CommandUpdate(st, key) ==
    CASE key = "Backspace" /\ st.cursor > 0 ->
            [st EXCEPT !.text = TakeChars(@, st.cursor - 1) \o Drop(@, st.cursor),
                       !.cursor = @ - 1]
      [] key = "Enter" ->
            [st EXCEPT !.submitted = Append(@, st.text),
                       !.text = <<>>, !.cursor = 0]
      [] key = "Left" /\ st.cursor > 0 -> [st EXCEPT !.cursor = @ - 1]
      [] key = "Right" /\ st.cursor < StringLen(st.text) ->
            [st EXCEPT !.cursor = @ + 1]
      [] key = "Home" -> [st EXCEPT !.cursor = 0]
      [] key = "End" -> [st EXCEPT !.cursor = StringLen(st.text)]
      [] key = "Delete" /\ st.cursor < StringLen(st.text) ->
            IF IsCharBoundary(st.text, st.cursor)
            THEN [st EXCEPT !.text = StringRemove(@, st.cursor)]
            ELSE [st EXCEPT !.panicked = TRUE]
      [] key = "Insert" ->
            [st EXCEPT !.edit_mode =
                IF @ = "Insert" THEN "Overwrite" ELSE "Insert"]
      [] key \in CharKeys /\ st.edit_mode = "Insert" ->
            [st EXCEPT !.text = (TakeChars(@, st.cursor) \o <<CharOf(key)>>)
                                    \o Drop(@, st.cursor),
                       !.cursor = @ + 1]
      [] key \in CharKeys /\ st.edit_mode = "Overwrite" ->
            [st EXCEPT !.text = (TakeChars(@, st.cursor) \o <<CharOf(key)>>)
                                    \o Drop(@, st.cursor + 1),
                       !.cursor = @ + 1]
      [] OTHER -> st

\* Renderer.root_state before render_loop has built the Renderer
NoRoot ==
    [built |-> FALSE, formatted_log_state |-> FormattedNew(LogEmpty),
     raw_log_state |-> RawNew(LogEmpty),
     command_input_state |-> CommandNew(FALSE),
     selected_widget |-> "Log", selected_tab |-> "FormattedLog"]

\* RootState::new
RootNew(l, stdin) ==
    [built |-> TRUE, formatted_log_state |-> FormattedNew(l),
     raw_log_state |-> RawNew(l),
     command_input_state |-> CommandNew(stdin),
     selected_widget |-> "Log", selected_tab |-> "FormattedLog"]

\* a with_log that builds the root state anew
RootWithLogAnew(st, l) == RootNew(l, st.command_input_state.some)

\* RootState::with_log
RootWithLog(st, l) ==
    [st EXCEPT !.formatted_log_state = FormattedWithLog(@, l),
               !.raw_log_state = RawWithLog(@, l)]

\* the key events that the widgets of the log view handle, and Ping
Keys == {"f", "Space", "Esc", "Left", "Right", "Tab", "BackTab", "Ping"}

\* get_index_mut(selected) and the flip of the flag found there
ToggleAt(map, selected) ==
    [n \in 1..Len(map) |->
        IF n = selected + 1 THEN [map[n] EXCEPT !.enabled = ~@] ELSE map[n]]

\* a toggle that takes the level list whichever list is shown
toggleLevels(list, filters) ==
    [filters EXCEPT !.levels = ToggleAt(@, list.selected)]

\* FiltersListState::toggle
toggle(list, filters) ==
    IF list.source = "Levels"
    THEN [filters EXCEPT !.levels = ToggleAt(@, list.selected)]
    ELSE [filters EXCEPT !.sources = ToggleAt(@, list.selected)]

\* State::update of FiltersListState: Left and Right move the selection
ListUpdate(list, key) ==
    CASE key = "Left" ->
            [list EXCEPT !.selected = IF @ = 0 THEN 0 ELSE @ - 1]
      [] key = "Right" -> [list EXCEPT !.selected = @ + 1]
      [] OTHER -> list

\* State::update of FormattedLogState
FormattedUpdate(st, l, key) ==
    CASE key = "f" /\ ~st.filters_list_state.open ->
            [st EXCEPT !.filters_list_state = ListLevels]
      [] key = "f" /\ st.filters_list_state.open ->
            [st EXCEPT !.filters_list_state =
                IF @.source = "Levels" THEN ListSources ELSE ListLevels]
      [] key = "Space" /\ st.filters_list_state.open ->
            apply_filter([st EXCEPT !.filters = toggle(st.filters_list_state, @)], l)
      [] key = "Esc" /\ st.filters_list_state.open ->
            [st EXCEPT !.filters_list_state = NoList]
      [] OTHER ->
            IF st.filters_list_state.open
            THEN [st EXCEPT !.filters_list_state = ListUpdate(@, key)]
            ELSE [st EXCEPT !.paragraph_state = ParagraphUpdate(@, key)]

\* State::update of RawLogState
RawUpdate(st, key) == [st EXCEPT !.paragraph_state = ParagraphUpdate(@, key)]

\* the text written for the commands of a queue: write_all(cmd) and
\* write_all("\n") for each of them, in the order of the queue
RECURSIVE Writes(_)
Writes(submitted) ==
    IF submitted = <<>> THEN <<>>
    ELSE (Head(submitted) \o <<"\n">>) \o Writes(Tail(submitted))

\* a sender that writes the commands without the line ends
RECURSIVE WritesBare(_)
WritesBare(submitted) ==
    IF submitted = <<>> THEN <<>>
    ELSE Head(submitted) \o WritesBare(Tail(submitted))

SendCommandsBare(st) ==
    IF st.command_input_state.some
    THEN [st EXCEPT !.command_input_state.stdin =
                        WritesBare(st.command_input_state.submitted),
                    !.command_input_state.submitted = <<>>]
    ELSE st

\* RootState::update, "Send commands if any": take_submitted drains the queue
\* and every command drained is written to the child's stdin
SendCommands(st) ==
    IF st.command_input_state.some
    THEN [st EXCEPT !.command_input_state.stdin =
                        Writes(st.command_input_state.submitted),
                    !.command_input_state.submitted = <<>>]
    ELSE st

\* State::update of RootState: the keys of the root, then the selected widget
RootDispatch(st, l, key) ==
    CASE key \in {"Tab", "BackTab"} /\ st.selected_widget = "Log" ->
            [st EXCEPT !.selected_tab =
                IF @ = "FormattedLog" THEN "RawLog" ELSE "FormattedLog"]
      [] key = "i" /\ st.selected_widget = "Log" ->
            [st EXCEPT !.selected_widget = "CommandInput"]
      [] key = "Esc" /\ st.selected_widget = "CommandInput" ->
            [st EXCEPT !.selected_widget = "Log"]
      [] OTHER ->
            IF st.selected_widget = "Log"
            THEN IF st.selected_tab = "FormattedLog"
                 THEN [st EXCEPT !.formatted_log_state = FormattedUpdate(@, l, key)]
                 ELSE [st EXCEPT !.raw_log_state = RawUpdate(@, key)]
            ELSE IF st.command_input_state.some
            THEN [st EXCEPT !.command_input_state = CommandUpdate(@, key)]
            ELSE st

\* State::update of RootState as a whole: the event is dispatched, then the
\* commands submitted are sent (controls_state.update changes nothing)
RootUpdate(st, l, key) == SendCommands(RootDispatch(st, l, key))

\* the number of entries of the list shown
ListLen(list, filters) ==
    IF list.source = "Levels" THEN Len(LevelAll) ELSE Len(filters.sources)

\* FiltersList::render: state.selected = state.selected.min(len - 1)
ListClamp(list, n) ==
    [list EXCEPT !.selected =
        IF n = 0 THEN 0 ELSE IF @ > n - 1 THEN n - 1 ELSE @]

\* FormattedLog::render: the paragraph is drawn, and the filter list when
\* it is open
FormattedRender(st, height) ==
    IF st.filters_list_state.open
    THEN [st EXCEPT !.filters_list_state =
             ListClamp(@, ListLen(@, st.filters)),
                    !.paragraph_state = ParagraphRender(@, height)]
    ELSE [st EXCEPT !.paragraph_state = ParagraphRender(@, height)]

\* RawLog::render
RawRender(st, height) ==
    [st EXCEPT !.paragraph_state = ParagraphRender(@, height)]

\* Root::render: only the selected tab is drawn; height is the height of the
\* inner area that the layout leaves to its paragraph
RootRender(st, height) ==
    IF st.selected_tab = "FormattedLog"
    THEN [st EXCEPT !.formatted_log_state = FormattedRender(@, height)]
    ELSE [st EXCEPT !.raw_log_state = RawRender(@, height)]

(* ------------------------------------------------------------------ *)
(* Texts that the environment supplies                                 *)
(* ------------------------------------------------------------------ *)

\* "[00:0"
FragA == <<"[", "0", "0", ":", "0">>

\* "1:02 INFO X] hi\n"
FragB == <<"1", ":", "0", "2", " ", "I", "N", "F", "O", " ", "X", "]", " ",
           "h", "i", NL>>

\* "[9:8:7 WARN Y] z\n"
LineH == <<"[", "9", ":", "8", ":", "7", " ", "W", "A", "R", "N", " ", "Y",
           "]", " ", "z", NL>>

\* "m\n"
LineC == <<"m", NL>>

\* "[1:2:3 INFO a\n"
FragS == <<"[", "1", ":", "2", ":", "3", " ", "I", "N", "F", "O", " ", "a", NL>>

\* "b] c\n"
FragT == <<"b", "]", " ", "c", NL>>

\* what read_line can hand to the reader thread
StreamLines == {FragA, FragB, LineH, LineC, FragS, FragT}

\* a file on disk (or a remote document): absent or unreadable, or a text
NoFile == [present |-> FALSE, text |-> <<>>]

FileOf(t) == [present |-> TRUE, text |-> t]

\* two documents that parse, and one that starts with a continuation line
FileTexts == {LineH, LineH \o LineC, LineC \o LineH}

FileStates == {NoFile} \cup {FileOf(t) : t \in FileTexts}

\* "[00:01:02 INFO X] hi\n"
LineX == FragA \o FragB

\* "[300:0:0 INFO X] q\n": an hour above 255
Line300 ==
    <<"[", "3", "0", "0", ":", "0", ":", "0", " ", "I", "N", "F", "O",
      " ", "X", "]", " ", "q", NL>>

\* "[3:4:5 ERROR X] \n": a header with empty contents
LineE ==
    <<"[", "3", ":", "4", ":", "5", " ", "E", "R", "R", "O", "R", " ",
      "X", "]", " ", NL>>

\* "[00:01:02 INFO SMAPI] Loaded\n[00:01:03 ERROR Mod.A] Boom\ndetails\n"
Scenario ==
    <<"[", "0", "0", ":", "0", "1", ":", "0", "2", " ", "I", "N", "F",
      "O", " ", "S", "M", "A", "P", "I", "]", " ", "L", "o", "a", "d",
      "e", "d", NL, "[", "0", "0", ":", "0", "1", ":", "0", "3", " ",
      "E", "R", "R", "O", "R", " ", "M", "o", "d", ".", "A", "]", " ",
      "B", "o", "o", "m", NL, "d", "e", "t", "a", "i", "l", "s", NL>>

\* text after the last line feed of a document: none, "[9:8:7 WARN Y] z", "m"
Tails == {<<>>, Take(LineH, Len(LineH) - 1), <<"m">>}

\* the lines a document handed to parse is made of
ParsePool == {LineH, LineX, LineC, LineE, Line300, FragS, FragT}

\* lines in a document handed to parse
MaxDocLines == 3

RECURSIVE BodiesOf(_)
BodiesOf(n) ==
    IF n = 0 THEN {<<>>}
    ELSE {<<>>} \cup {b \o p : b \in BodiesOf(n - 1), p \in ParsePool}

\* digit runs of a timestamp field: 0, 99, 255, 256, 0255 and 1000
StampDigits ==
    {<<"0">>, <<"9", "9">>, <<"2", "5", "5">>, <<"2", "5", "6">>,
     <<"0", "2", "5", "5">>, <<"1", "0", "0", "0">>}

\* "[h:m:s INFO X] q\n"
StampLine(h, m, s) ==
    (((((<<"[">> \o h) \o <<":">>) \o m) \o <<":">>) \o s)
        \o <<" ", "I", "N", "F", "O", " ", "X", "]", " ", "q", NL>>

StampLines == {StampLine(h, m, s) : h \in StampDigits, m \in StampDigits, s \in StampDigits}

\* a line with each timestamp, as the first line and after a header line
StampDocs == StampLines \cup {LineH \o t : t \in StampLines}

\* "[1:2:3 info X] q\n", "[1:2:3 INFO ] q\n" and "[1:2:3 INFO X]q\n": a
\* keyword in lower case, an empty source, no space after "]"
OffGrammarLines ==
    {<<"[", "1", ":", "2", ":", "3", " ", "i", "n", "f", "o", " ", "X", "]",
       " ", "q", NL>>,
     <<"[", "1", ":", "2", ":", "3", " ", "I", "N", "F", "O", " ", "]", " ",
       "q", NL>>,
     <<"[", "1", ":", "2", ":", "3", " ", "I", "N", "F", "O", " ", "X", "]",
       "q", NL>>}

\* each of them as the first line and between two header lines
OffGrammarDocs ==
    OffGrammarLines \cup {(LineH \o t) \o LineE : t \in OffGrammarLines}

\* the documents handed to parse: up to MaxDocLines lines, then a tail
ParseDocs ==
    (({b \o t : b \in BodiesOf(MaxDocLines), t \in Tails} \cup {Scenario})
        \cup StampDocs) \cup OffGrammarDocs

\* "[00:01:02 INFO X] hi\n[9:8:7 WARN Y] z\nm\n[3:4:5 ERROR X] \n"
Mixed == ((LineX \o LineH) \o LineC) \o LineE

\* the documents whose Logs the views are built from
ViewDocs == {LineH, Mixed, Scenario}

\* the document of the Log that render_loop is entered with
StartDocs == {LineH}

(* ------------------------------------------------------------------ *)
(* State                                                               *)
(* ------------------------------------------------------------------ *)

VARIABLES
    phase,      \* "start": in get_source; "failed": get_source returned Err;
                \* "running": in render_loop; "error": render_loop returned
                \* Err; "quit": render_loop returned Ok; "received": an
                \* event is taken from event_rx; "render": update_from has
                \* returned; "panicked": the foreground thread unwinds
    kind,       \* the LogSource built: "none", "Static", "Followed", "Streamed"
    ctor,       \* the arguments get_source was called with
    log,        \* Renderer.log, the Log the consumer holds
    file,       \* the file at the log path
    seen,       \* the PollWatcher's last snapshot of the file
    rx,         \* FollowedLogSource.rx, the bounded channel of FileUpdate
    watcher,    \* the watcher thread: waiting in tx.send or not, and with what
    lines,      \* ReaderLogSource.rx, the unbounded channel of Result<String>
    unparsed,   \* ReaderLogSource.unparsed
    sent,       \* number of items the reader thread has forwarded
    changes,    \* number of times the file has changed
    last,       \* the last update_log call: what it saw and what it returned
    root_state, \* Renderer.root_state, the views derived from the Log
    doc,        \* the text handed to parse and to Log::parse, or the
                \* paragraph state, key and height handed to render
    filt,       \* the LogFilters handed to apply and to with_log
    parsed,     \* what parse, Log::parse, apply, with_log, update and
                \* render returned
    events,     \* event_rx of render_loop, the unbounded channel of AppEvent;
                \* with the event of the iteration at its head once received
    running,    \* EventController.running
    event_thread, \* the event thread: "none"; "check": at the loop condition;
                \* "poll": in the loop body; "exited"
    reader,     \* the reader thread: "none"; "read": in its loop; "exited"
    stream,     \* the stream the reader thread reads: "open" or "eof"
    dropped,    \* what has been dropped since render_loop ended: "nothing";
                \* "joining": EventController::drop waits in join;
                \* "controller"; "source"
    late        \* events sent since running was set to false

vars == <<phase, kind, ctor, log, file, seen, rx, watcher, lines, unparsed,
          sent, changes, last, root_state, doc, filt, parsed, events, running,
          event_thread, reader, stream, dropped, late>>

\* the threads beside the foreground thread and the teardown
threadVars == <<events, running, event_thread, reader, stream, dropped, late>>

\* the inputs and the results of the functions applied on their own
inputVars == <<doc, filt, parsed>>

\* crossbeam::channel::bounded(10)
ChannelCap == 10

\* anyhow::Result<Option<Log>>
RetErr == [ok |-> FALSE, some |-> FALSE, log |-> LogEmpty]

RetNone == [ok |-> TRUE, some |-> FALSE, log |-> LogEmpty]

RetSome(l) == [ok |-> TRUE, some |-> TRUE, log |-> l]

WatcherIdle == [blocked |-> FALSE, event |-> "none"]

NoCall ==
    [called |-> FALSE, prev |-> LogEmpty, buffer |-> <<>>, drained |-> <<>>,
     seenFile |-> NoFile, opens |-> 0, parses |-> 0, ret |-> RetNone]

NoCtor ==
    [stdin_flag |-> FALSE, follow_flag |-> FALSE, remote_flag |-> FALSE,
     pathOk |-> FALSE, watchOk |-> FALSE, doc |-> NoFile, file |-> NoFile]

\* nothing has been applied yet
NoResult ==
    [called |-> FALSE, result |-> [ok |-> FALSE, messages |-> <<>>],
     log |-> [ok |-> FALSE, log |-> LogEmpty], kept |-> <<>>,
     reconciled |-> NewFilters(LogEmpty), returned |-> <<>>,
     updated |-> <<>>, formatted |-> <<>>,
     state |-> ParagraphNew(0), scrollbar |-> NoScrollbar]

\* before start has called get_source
NotStarted ==
    /\ phase = "start"
    /\ kind = "none"
    /\ ctor = NoCtor
    /\ log = LogEmpty
    /\ file = NoFile
    /\ seen = NoFile
    /\ rx = <<>>
    /\ watcher = WatcherIdle
    /\ lines = <<>>
    /\ unparsed = <<>>
    /\ sent = 0
    /\ changes = 0
    /\ last = NoCall
    /\ root_state = NoRoot
    /\ events = <<>>
    /\ running = FALSE
    /\ event_thread = "none"
    /\ reader = "none"
    /\ stream = "open"
    /\ dropped = "nothing"
    /\ late = 0

Init ==
    /\ NotStarted
    /\ doc = <<>>
    /\ filt = NewFilters(LogEmpty)
    /\ parsed = NoResult

(* ------------------------------------------------------------------ *)
(* Construction: startup.rs get_source and the constructors            *)
(* ------------------------------------------------------------------ *)

\* Log::parse_reader: read the whole file, then Log::parse
ParseReader(f) == LogParse(f.text)

\* StaticLogSource::from_file
StaticFromFile(f) ==
    IF ~f.present THEN [ok |-> FALSE, log |-> LogEmpty] ELSE ParseReader(f)

\* StaticLogSource::from_string
StaticFromString(raw) == LogParse(raw)

\* a constructor that goes on without the watch when registering it fails
FollowedNewUnwatched(f, watchOk) ==
    IF ~f.present THEN [ok |-> FALSE, log |-> LogEmpty]
    ELSE ParseReader(f)

\* FollowedLogSource::new: the watcher is created and registered first
FollowedNew(f, watchOk) ==
    IF ~watchOk THEN [ok |-> FALSE, log |-> LogEmpty]
    ELSE IF ~f.present THEN [ok |-> FALSE, log |-> LogEmpty]
    ELSE ParseReader(f)

CtorErr == [ok |-> FALSE, kind |-> "none", log |-> LogEmpty]

\* get_source: c holds the flags, whether a log path is known, whether the
\* watch can be registered and the remote document (absent: the GET fails)
get_source(c, f) ==
    IF Cardinality({n \in {1, 2, 3} :
            <<c.stdin_flag, c.follow_flag, c.remote_flag>>[n]}) > 1
    THEN CtorErr
    ELSE IF c.stdin_flag
    THEN [ok |-> TRUE, kind |-> "Streamed", log |-> LogEmpty]
    ELSE IF ~c.pathOk THEN CtorErr
    ELSE IF c.follow_flag
    THEN LET r == FollowedNew(f, c.watchOk)
         IN  IF r.ok THEN [ok |-> TRUE, kind |-> "Followed", log |-> r.log]
             ELSE CtorErr
    ELSE IF c.remote_flag
    THEN IF ~c.doc.present THEN CtorErr
         ELSE LET r == StaticFromString(c.doc.text)
              IN  IF r.ok THEN [ok |-> TRUE, kind |-> "Static", log |-> r.log]
                  ELSE CtorErr
    ELSE LET r == StaticFromFile(f)
         IN  IF r.ok THEN [ok |-> TRUE, kind |-> "Static", log |-> r.log]
             ELSE CtorErr

\* the arguments of get_source and the world it runs in; an argument that
\* get_source does not read for the given flags is left at its default
CtorArgs ==
    {c \in [stdin_flag : BOOLEAN, follow_flag : BOOLEAN, remote_flag : BOOLEAN,
            pathOk : BOOLEAN, watchOk : BOOLEAN, doc : FileStates,
            file : FileStates] :
        LET many   == Cardinality({n \in {1, 2, 3} :
                        <<c.stdin_flag, c.follow_flag, c.remote_flag>>[n]}) > 1
            follow == ~many /\ c.follow_flag
            remote == ~many /\ c.remote_flag
            static == ~many /\ ~c.stdin_flag /\ ~c.follow_flag /\ ~c.remote_flag
        IN  /\ (c.pathOk => follow \/ remote \/ static)
            /\ (c.watchOk => follow /\ c.pathOk)
            /\ (c.doc # NoFile => remote /\ c.pathOk)
            /\ (c.file # NoFile => (follow \/ static) /\ c.pathOk)}

\* start: get_source(..)? and, when it returns Ok, the entry into render_loop,
\* where EventController::start spawns the event thread and
\* Renderer::from_log builds the root state, no child process having been
\* spawned; ReaderLogSource::new has spawned the reader thread
Start(c) ==
    /\ phase = "start"
    /\ LET r == get_source(c, c.file)
       IN  /\ phase' = IF r.ok THEN "running" ELSE "failed"
           /\ kind' = r.kind
           /\ log' = r.log
           /\ seen' = IF r.kind = "Followed" THEN c.file ELSE seen
           /\ root_state' = IF r.ok THEN RootNew(r.log, FALSE) ELSE root_state
           /\ reader' = IF r.kind = "Streamed" THEN "read" ELSE "none"
           /\ running' = r.ok
           /\ event_thread' = IF r.ok THEN "check" ELSE "none"
    /\ ctor' = c
    /\ file' = c.file
    /\ UNCHANGED <<rx, watcher, lines, unparsed, sent, changes, last>>
    /\ UNCHANGED <<events, stream, dropped, late>>
    /\ UNCHANGED inputVars

(* ------------------------------------------------------------------ *)
(* source.rs: the three update_log                                     *)
(* ------------------------------------------------------------------ *)

\* a StaticLogSource that reads the file again on every call
StaticUpdateLogReread(l) ==
    IF file.present /\ ParseReader(file).ok /\ ParseReader(file).log # l
    THEN RetSome(ParseReader(file).log)
    ELSE RetNone

\* StaticLogSource::update_log
StaticUpdateLog(l) == RetNone

\* a closure that hands the failure of the open or the parse to the caller
FollowedEventPropagate(acc, event, f) ==
    IF event = "Removed"
    THEN [acc EXCEPT !.ret = RetSome(LogEmpty)]
    ELSE IF ~f.present \/ ~ParseReader(f).ok
    THEN [acc EXCEPT !.ret = RetErr, !.opens = @ + 1]
    ELSE [ret |-> RetSome(ParseReader(f).log), opens |-> acc.opens + 1,
          parses |-> acc.parses + 1]

\* a closure that blanks the Log when the open or the parse fails
FollowedEventBlank(acc, event, f) ==
    IF event = "Removed" \/ ~f.present \/ ~ParseReader(f).ok
    THEN [acc EXCEPT !.ret = RetSome(LogEmpty),
                     !.opens = @ + (IF event = "Removed" THEN 0 ELSE 1)]
    ELSE [ret |-> RetSome(ParseReader(f).log), opens |-> acc.opens + 1,
          parses |-> acc.parses + 1]

\* a closure for which Removed only resets when no Log was produced before it
FollowedEventKeep(acc, event, f) ==
    IF event = "Removed"
    THEN IF acc.ret.some THEN acc ELSE [acc EXCEPT !.ret = RetSome(LogEmpty)]
    ELSE IF ~f.present
    THEN [acc EXCEPT !.opens = @ + 1]
    ELSE LET p == ParseReader(f)
         IN  IF ~p.ok
             THEN [acc EXCEPT !.opens = @ + 1, !.parses = @ + 1]
             ELSE [ret |-> RetSome(p.log), opens |-> acc.opens + 1,
                   parses |-> acc.parses + 1]

\* the closure of the try_fold in FollowedLogSource::update_log, for one
\* event: try_or_warn returns the accumulator when the open or the parse fails
FollowedEvent(acc, event, f) ==
    IF event = "Removed"
    THEN [acc EXCEPT !.ret = RetSome(LogEmpty)]
    ELSE IF ~f.present
    THEN [acc EXCEPT !.opens = @ + 1]
    ELSE LET p == ParseReader(f)
         IN  IF ~p.ok
             THEN [acc EXCEPT !.opens = @ + 1, !.parses = @ + 1]
             ELSE [ret |-> RetSome(p.log), opens |-> acc.opens + 1,
                   parses |-> acc.parses + 1]

RECURSIVE FollowedFold(_, _, _)

\* a fold that coalesces the pending events and handles only the last one
FollowedFoldLastOnly(chan, f, acc) ==
    IF chan = <<>> THEN acc
    ELSE FollowedEvent(acc, chan[Len(chan)], f)

\* self.rx.try_iter().try_fold(None, ..): every pending event, in order
FollowedFold(chan, f, acc) ==
    IF chan = <<>> THEN acc
    ELSE FollowedFold(Tail(chan), f, FollowedEvent(acc, Head(chan), f))

\* FollowedLogSource::update_log
FollowedUpdateLog(chan, f) ==
    FollowedFold(chan, f, [ret |-> RetNone, opens |-> 0, parses |-> 0])

\* a channel item of the Streamed source: Ok(line) or Err(io error)
OkLine(t) == [ok |-> TRUE, text |-> t]

ErrLine == [ok |-> FALSE, text |-> <<>>]

RECURSIVE DrainLines(_, _)

\* a loop that takes one further line and leaves the others in the channel
DrainLinesOne(chan, buf) ==
    IF chan = <<>> THEN [err |-> FALSE, buf |-> buf, rest |-> <<>>]
    ELSE IF ~Head(chan).ok THEN [err |-> TRUE, buf |-> buf, rest |-> Tail(chan)]
    ELSE [err |-> FALSE, buf |-> buf \o Head(chan).text, rest |-> Tail(chan)]

\* while let Ok(line) = self.rx.try_recv() { self.unparsed.push_str(&line?) }
DrainLines(chan, buf) ==
    IF chan = <<>> THEN [err |-> FALSE, buf |-> buf, rest |-> <<>>]
    ELSE IF ~Head(chan).ok THEN [err |-> TRUE, buf |-> buf, rest |-> Tail(chan)]
    ELSE DrainLines(Tail(chan), buf \o Head(chan).text)

\* an update_log that clears the buffer whether or not the parse succeeded
ReaderUpdateLogClear(l, buf, chan) ==
    IF chan = <<>>
    THEN [ret |-> RetNone, unparsed |-> buf, rx |-> chan, parses |-> 0]
    ELSE IF ~Head(chan).ok
    THEN [ret |-> RetErr, unparsed |-> buf, rx |-> Tail(chan), parses |-> 0]
    ELSE
    LET first_line == Head(chan).text
        d == DrainLines(Tail(chan), (buf \o first_line) \o first_line)
    IN  IF d.err
        THEN [ret |-> RetErr, unparsed |-> d.buf, rx |-> d.rest, parses |-> 0]
        ELSE LET p == LogParse(l.raw \o d.buf)
             IN  [ret |-> IF p.ok THEN RetSome(p.log) ELSE RetNone,
                  unparsed |-> <<>>, rx |-> d.rest, parses |-> 1]

\* an update_log that parses the text it holds again on every call
ReaderUpdateLogRetry(l, buf, chan) ==
    IF chan = <<>> /\ buf = <<>>
    THEN [ret |-> RetNone, unparsed |-> buf, rx |-> chan, parses |-> 0]
    ELSE IF chan = <<>>
    THEN [ret |-> IF LogParse(l.raw \o buf).ok
                  THEN RetSome(LogParse(l.raw \o buf).log) ELSE RetNone,
          unparsed |-> IF LogParse(l.raw \o buf).ok THEN <<>> ELSE buf,
          rx |-> chan, parses |-> 1]
    ELSE IF ~Head(chan).ok
    THEN [ret |-> RetErr, unparsed |-> buf, rx |-> Tail(chan), parses |-> 0]
    ELSE
    LET first_line == Head(chan).text
        \* push_str(&first_line) at line 202 and again at line 205
        d == DrainLines(Tail(chan), (buf \o first_line) \o first_line)
    IN  IF d.err
        THEN [ret |-> RetErr, unparsed |-> d.buf, rx |-> d.rest, parses |-> 0]
        ELSE LET p == LogParse(l.raw \o d.buf)
             IN  IF p.ok
                 THEN [ret |-> RetSome(p.log), unparsed |-> <<>>,
                       rx |-> d.rest, parses |-> 1]
                 ELSE [ret |-> RetNone, unparsed |-> d.buf, rx |-> d.rest,
                       parses |-> 1]

\* ReaderLogSource::update_log: the value returned, the buffer and the
\* channel afterwards, and the number of Log::parse calls made
ReaderUpdateLog(l, buf, chan) ==
    IF chan = <<>>
    THEN [ret |-> RetNone, unparsed |-> buf, rx |-> chan, parses |-> 0]
    ELSE IF ~Head(chan).ok
    THEN [ret |-> RetErr, unparsed |-> buf, rx |-> Tail(chan), parses |-> 0]
    ELSE
    LET first_line == Head(chan).text
        \* push_str(&first_line) at line 202 and again at line 205
        d == DrainLines(Tail(chan), (buf \o first_line) \o first_line)
    IN  IF d.err
        THEN [ret |-> RetErr, unparsed |-> d.buf, rx |-> d.rest, parses |-> 0]
        ELSE LET p == LogParse(l.raw \o d.buf)
             IN  IF p.ok
                 THEN [ret |-> RetSome(p.log), unparsed |-> <<>>,
                       rx |-> d.rest, parses |-> 1]
                 ELSE [ret |-> RetNone, unparsed |-> d.buf, rx |-> d.rest,
                       parses |-> 1]

(* ------------------------------------------------------------------ *)
(* Background threads and the environment                              *)
(* ------------------------------------------------------------------ *)

\* the reader thread: read_line returned a line, tx.send(Ok(buffer))
ReaderSendOf(pool, max) ==
    /\ phase = "running" /\ kind = "Streamed"
    /\ reader = "read" /\ stream = "open"
    /\ sent < max
    /\ \E t \in pool : lines' = Append(lines, OkLine(t))
    /\ sent' = sent + 1
    /\ UNCHANGED <<phase, kind, ctor, log, file, seen, rx, watcher, unparsed,
                   changes, last>>
    /\ UNCHANGED <<root_state, doc, filt, parsed>>
    /\ UNCHANGED threadVars

ReaderSendLine == ReaderSendOf(StreamLines, MaxLines)

\* the reader thread: read_line returned Err, tx.send(Err(error.into()))
ReaderSendErrorTo(max) ==
    /\ phase = "running" /\ kind = "Streamed"
    /\ reader = "read" /\ stream = "open"
    /\ sent < max
    /\ lines' = Append(lines, ErrLine)
    /\ sent' = sent + 1
    /\ UNCHANGED <<phase, kind, ctor, log, file, seen, rx, watcher, unparsed,
                   changes, last>>
    /\ UNCHANGED <<root_state, doc, filt, parsed>>
    /\ UNCHANGED threadVars

ReaderSendError == ReaderSendErrorTo(MaxLines)

\* another process writes, creates or removes the file
FileChangeTo(states, max) ==
    /\ phase = "running" /\ kind \in {"Static", "Followed"}
    /\ changes < max
    /\ \E f \in states : f # file /\ file' = f
    /\ changes' = changes + 1
    /\ UNCHANGED <<phase, kind, ctor, log, seen, rx, watcher, lines, unparsed,
                   sent, last>>
    /\ UNCHANGED <<root_state, doc, filt, parsed>>
    /\ UNCHANGED threadVars

FileChange == FileChangeTo(FileStates, MaxChanges)

\* a try_send: the event is dropped when the channel is full
SendDropping(chan, event) ==
    IF Len(chan) < ChannelCap
    THEN [rx |-> Append(chan, event), watcher |-> WatcherIdle]
    ELSE [rx |-> chan, watcher |-> WatcherIdle]

\* tx.send(event) on the bounded channel: a full channel makes send wait
Send(chan, event) ==
    IF Len(chan) < ChannelCap
    THEN [rx |-> Append(chan, event), watcher |-> WatcherIdle]
    ELSE [rx |-> chan, watcher |-> [blocked |-> TRUE, event |-> event]]

\* the PollWatcher's poll finds the file changed and calls the callback
WatcherPoll ==
    /\ phase = "running" /\ kind = "Followed"
    /\ ~watcher.blocked
    /\ seen # file
    /\ seen' = file
    /\ LET s == Send(rx, IF file.present THEN "Updated" ELSE "Removed")
       IN  rx' = s.rx /\ watcher' = s.watcher
    /\ UNCHANGED <<phase, kind, ctor, log, file, lines, unparsed, sent,
                   changes, last>>
    /\ UNCHANGED <<root_state, doc, filt, parsed>>
    /\ UNCHANGED threadVars

\* the waiting tx.send completes once the channel has room
WatcherResume ==
    /\ phase = "running" /\ kind = "Followed"
    /\ watcher.blocked
    /\ Len(rx) < ChannelCap
    /\ rx' = Append(rx, watcher.event)
    /\ watcher' = WatcherIdle
    /\ UNCHANGED <<phase, kind, ctor, log, file, seen, lines, unparsed, sent,
                   changes, last>>
    /\ UNCHANGED <<root_state, doc, filt, parsed>>
    /\ UNCHANGED threadVars

(* ------------------------------------------------------------------ *)
(* startup.rs: render_loop and Renderer::update_from                   *)
(* ------------------------------------------------------------------ *)

\* rows of the inner area that the size of the terminal leaves to a paragraph
MaxRows == 1

Heights == 1..MaxRows

\* Renderer::update_from and the `?` of render_loop: an Err ends the loop,
\* Some(new_log) replaces the Log, None keeps it
UpdateFrom(ret) ==
    /\ phase' = IF ret.ok THEN "running" ELSE "error"
    /\ log' = IF ret.ok /\ ret.some THEN ret.log ELSE log

\* the root state that update_from leaves: root_state.with_log(new_log) when
\* the source returned a Log
Updated(ret) ==
    IF ret.ok /\ ret.some THEN RootWithLog(root_state, ret.log) ELSE root_state

\* Renderer::render after update_from: root_state.update(event), then the
\* frame is drawn, force_redraw being true in every iteration; nothing is
\* drawn when update_from returned Err. The paragraphs are at row 0, where
\* drawing leaves them whatever the height of the terminal
Render(ret, key) ==
    root_state' =
        IF ret.ok
        THEN RootRender(RootUpdate(Updated(ret),
                                   IF ret.some THEN ret.log ELSE log, key),
                        MaxRows)
        ELSE root_state

\* update_from and render over a StaticLogSource
StaticIteration ==
    /\ phase = "running" /\ kind = "Static"
    /\ LET ret == StaticUpdateLog(log)
       IN  /\ UpdateFrom(ret)
           /\ Render(ret, "Ping")
           /\ last' = [NoCall EXCEPT !.called = TRUE, !.prev = log,
                                     !.seenFile = file, !.ret = ret]
    /\ UNCHANGED <<kind, ctor, file, seen, rx, watcher, lines, unparsed, sent,
                   changes>>
    /\ UNCHANGED inputVars

\* update_from and render over a FollowedLogSource; every event of the call
\* reads the file as it is when the call is made
FollowedIteration ==
    /\ phase = "running" /\ kind = "Followed"
    /\ LET r == FollowedUpdateLog(rx, file)
       IN  /\ UpdateFrom(r.ret)
           /\ Render(r.ret, "Ping")
           /\ last' = [called |-> TRUE, prev |-> log, buffer |-> <<>>,
                       drained |-> rx, seenFile |-> file, opens |-> r.opens,
                       parses |-> r.parses, ret |-> r.ret]
    /\ rx' = <<>>
    /\ UNCHANGED <<kind, ctor, file, seen, watcher, lines, unparsed, sent,
                   changes>>
    /\ UNCHANGED inputVars

\* update_from and render over a ReaderLogSource
StreamedIteration ==
    /\ phase = "running" /\ kind = "Streamed"
    /\ LET r == ReaderUpdateLog(log, unparsed, lines)
       IN  /\ UpdateFrom(r.ret)
           /\ Render(r.ret, "Ping")
           /\ unparsed' = r.unparsed
           /\ lines' = r.rx
           /\ last' = [called |-> TRUE, prev |-> log, buffer |-> unparsed,
                       drained |-> SubSeq(lines, 1, Len(lines) - Len(r.rx)),
                       seenFile |-> file, opens |-> 0, parses |-> r.parses,
                       ret |-> r.ret]
    /\ UNCHANGED <<kind, ctor, file, seen, rx, watcher, sent, changes>>
    /\ UNCHANGED inputVars

\* one iteration of render_loop over a StaticLogSource, whatever the event
\* received is unless it is Ctrl+C
RenderStatic == StaticIteration /\ UNCHANGED threadVars

\* one iteration of render_loop over a FollowedLogSource
RenderFollowed == FollowedIteration /\ UNCHANGED threadVars

\* one iteration of render_loop over a ReaderLogSource
RenderStreamed == StreamedIteration /\ UNCHANGED threadVars

\* Ctrl+C: render_loop breaks before update_from and returns Ok
Quit ==
    /\ phase = "running"
    /\ phase' = "quit"
    /\ UNCHANGED <<kind, ctor, log, file, seen, rx, watcher, lines, unparsed,
                   sent, changes, last>>
    /\ UNCHANGED <<root_state, doc, filt, parsed>>
    /\ UNCHANGED threadVars

StartAny == \E c \in CtorArgs : Start(c)

\* every variant, with fewer file changes than the channel has room for, so
\* that no send has to wait
Next ==
    \/ StartAny
    \/ ReaderSendLine
    \/ ReaderSendError
    \/ FileChange
    \/ WatcherPoll
    \/ RenderStatic
    \/ RenderFollowed
    \/ RenderStreamed
    \/ Quit

Spec == Init /\ [][Next]_vars

(* ------------------------------------------------------------------ *)
(* The watcher against a foreground that polls rarely: the file is     *)
(* created and removed often enough to fill the channel                *)
(* ------------------------------------------------------------------ *)

\* changes of the watched file in one run of the watcher specification
MaxWatchChanges == 12

WatchedStates == {NoFile, FileOf(LineH)}

StartFollowed ==
    \E c \in CtorArgs :
        /\ c.follow_flag /\ c.pathOk /\ c.watchOk /\ c.file = FileOf(LineH)
        /\ Start(c)

FileToggle == FileChangeTo(WatchedStates, MaxWatchChanges)

NextWatcher ==
    \/ StartFollowed
    \/ FileToggle
    \/ WatcherPoll
    \/ WatcherResume
    \/ RenderFollowed

SpecWatcher == Init /\ [][NextWatcher]_vars

(* ------------------------------------------------------------------ *)
(* parse, Log::parse, LogFilters::apply and LogFilters::with_log       *)
(* applied to documents and filters given from outside                 *)
(* ------------------------------------------------------------------ *)

\* an entry of a filter map given from outside: absent, enabled or disabled
Choices == {"absent", "on", "off"}

\* the entries of names that c does not leave out, in the order of names
EntriesOf(names, c) ==
    LET Present(n) == c[n] # "absent"
    IN  [k \in 1..Len(SelectSeq(names, Present)) |->
            [key |-> SelectSeq(names, Present)[k],
             enabled |-> c[SelectSeq(names, Present)[k]] = "on"]]

\* the levels whose entry varies are those of the messages of ViewDocs
LevelChoices ==
    {c \in [{LevelAll[n] : n \in 1..Len(LevelAll)} -> Choices] :
        c["Trace"] = "on" /\ c["Debug"] = "on" /\ c["Alert"] = "on"}

SourceNames == << <<"X">>, <<"Y">> >>

SourceChoices == [{SourceNames[n] : n \in 1..Len(SourceNames)} -> Choices]

\* LogFilters values: pub fields, keys distinct, sources in ascending order
FilterInputs ==
    {[levels |-> EntriesOf(LevelAll, lc), sources |-> EntriesOf(SourceNames, sc)] :
        lc \in LevelChoices, sc \in SourceChoices}

InitFunctions ==
    /\ NotStarted
    /\ parsed = NoResult
    /\ \/ doc \in ParseDocs /\ filt = NewFilters(LogParse(doc).log)
       \/ doc \in ViewDocs /\ filt \in FilterInputs

\* the Logs held between two replacements: Log::empty, as after a Removed
\* event, and the Log of "[9:8:7 WARN Y] z\n"
BetweenLogs == <<LogEmpty, LogParse(LineH).log>>

\* the greatest index selected in the filter list when a key arrives
MaxListSelected == 2

\* FiltersListState as a key event can find it: None, or a list on the
\* levels or the sources with some index selected, which a Log with fewer
\* sources may have left beyond the end of the list
ListInputs ==
    {NoList} \cup
        [open : {TRUE}, selected : 0..MaxListSelected,
         source : {"Levels", "Sources"}]

\* the keys of the filter list
ListKeys == {"f", "Esc", "Space"}

\* FormattedLogState over the Log l with the filters reconciled to it
FormattedOver(l, filters, list) ==
    FormattedState(FiltersWithLog(filters, l), list,
                   format_lines(l, FiltersWithLog(filters, l)), Origin)

\* the four functions applied to doc and filt; returned holds with_log over
\* a Log held in between and then over the Log of doc; updated holds, for
\* the documents of the views, the update of the formatted log state for
\* every list state and key
ApplyFunctions ==
    /\ ~parsed.called
    /\ parsed' = [called |-> TRUE,
                  result |-> parse(doc),
                  log |-> LogParse(doc),
                  kept |-> apply(filt, LogParse(doc).log),
                  reconciled |-> FiltersWithLog(filt, LogParse(doc).log),
                  returned |->
                      [k \in 1..Len(BetweenLogs) |->
                          FiltersWithLog(FiltersWithLog(filt, BetweenLogs[k]),
                                         LogParse(doc).log)],
                  updated |->
                      IF doc \in ViewDocs
                      THEN [x \in ListInputs \X ListKeys |->
                               FormattedUpdate(
                                   FormattedOver(LogParse(doc).log, filt, x[1]),
                                   LogParse(doc).log, x[2])]
                      ELSE <<>>,
                  formatted |->
                      format_lines(LogParse(doc).log,
                                   FiltersWithLog(filt, LogParse(doc).log)).lines,
                  state |-> NoResult.state,
                  scrollbar |-> NoResult.scrollbar]
    /\ UNCHANGED <<phase, kind, ctor, log, file, seen, rx, watcher, lines,
                   unparsed, sent, changes, last, root_state, doc, filt>>
    /\ UNCHANGED threadVars

NextFunctions == ApplyFunctions

SpecFunctions == InitFunctions /\ [][NextFunctions]_vars

(* ------------------------------------------------------------------ *)
(* LazyParagraph applied on its own: a scroll key, then render          *)
(* ------------------------------------------------------------------ *)

\* the lines of a short paragraph, and its offsets
MaxParagraph == 4

\* the height of the inner area
MaxHeight == 3

\* the counts drawn on either side of 2^24
EdgeSpan == 6

\* line counts and offsets: small ones and ones around 2^24; an offset may
\* be beyond the lines, as with_log leaves it after a longer Log
ParagraphCounts ==
    0..MaxParagraph \cup (F32Exact - 2)..(F32Exact + EdgeSpan)

\* the scroll keys, and Ping for no scroll
ScrollKeys == {"Ping", "Up", "Down", "PageUp", "PageDown", "Home", "End"}

\* doc holds the state, the key and the height that render is applied to
InitParagraph ==
    /\ NotStarted
    /\ parsed = NoResult
    /\ filt = NewFilters(LogEmpty)
    /\ doc \in [lines : ParagraphCounts, y : ParagraphCounts,
                 key : ScrollKeys, height : 0..MaxHeight]

\* LazyParagraphState::update with the key, then LazyParagraph::render
ApplyRender ==
    /\ ~parsed.called
    /\ parsed' =
           [NoResult EXCEPT
               !.called = TRUE,
               !.state =
                   ParagraphRender(
                       ParagraphUpdate(
                           ParagraphAt(doc.lines, [x |-> 0, y |-> doc.y]),
                           doc.key),
                       doc.height),
               !.scrollbar =
                   ScrollbarOf(
                       ParagraphRender(
                           ParagraphUpdate(
                               ParagraphAt(doc.lines, [x |-> 0, y |-> doc.y]),
                               doc.key),
                           doc.height),
                       doc.height)]
    /\ UNCHANGED <<phase, kind, ctor, log, file, seen, rx, watcher, lines,
                   unparsed, sent, changes, last, root_state, doc, filt>>
    /\ UNCHANGED threadVars

NextParagraph == ApplyRender

SpecParagraph == InitParagraph /\ [][NextParagraph]_vars

(* ------------------------------------------------------------------ *)
(* render_loop over any LogSource, with the key events of the log view *)
(* ------------------------------------------------------------------ *)

\* what update_log of some LogSource can return
ViewRets ==
    {RetNone, RetSome(LogEmpty)} \cup {RetSome(LogParse(t).log) : t \in ViewDocs}

\* render_loop is entered with a Log and a source: Renderer::from_log
StartView ==
    /\ phase = "start"
    /\ \E t \in StartDocs :
          /\ log' = LogParse(t).log
          /\ root_state' = RootNew(LogParse(t).log, FALSE)
    /\ phase' = "running"
    /\ kind' = "Any"
    /\ UNCHANGED <<ctor, file, seen, rx, watcher, lines, unparsed, sent,
                   changes, last>>
    /\ UNCHANGED inputVars
    /\ UNCHANGED threadVars

\* the paragraph of the selected tab takes the key events
ParagraphTakesKeys(st) ==
    /\ st.selected_widget = "Log"
    /\ st.selected_tab = "FormattedLog" => ~st.formatted_log_state.filters_list_state.open

\* one iteration of render_loop: the event is a key or Ping, update_from
\* polls the source, render updates the root state and draws; the paragraphs
\* are left at their columns
ViewKey(key) ==
    /\ phase = "running" /\ kind = "Any"
    /\ key = "Right" => ~ParagraphTakesKeys(root_state)
    /\ \E ret \in ViewRets :
          /\ UpdateFrom(ret)
          /\ Render(ret, key)
    /\ UNCHANGED <<kind, ctor, file, seen, rx, watcher, lines, unparsed, sent,
                   changes, last>>
    /\ UNCHANGED inputVars
    /\ UNCHANGED threadVars

NextView ==
    \/ StartView
    \/ \E key \in Keys : ViewKey(key)

SpecView == Init /\ [][NextView]_vars

(* ------------------------------------------------------------------ *)
(* render_loop with every widget of the root: update_from and render   *)
(* as the two steps of an iteration                                    *)
(* ------------------------------------------------------------------ *)

\* characters typed into the command input
MaxText == 1

\* entries the selection of the filter list is moved to the right
MaxSelected == 1

\* "[9:8:7 WARN Y] z\n" and "[9:8:7 WARN Y] z\nm\n": one and two lines
FrameDocs == {LineH, LineH \o LineC}

\* what update_log of some LogSource can return
FrameRets == {RetNone} \cup {RetSome(LogParse(t).log) : t \in FrameDocs}

\* the key events drawn, and Ping
FrameKeys ==
    {"Ping", "Tab", "i", "Esc", "f", "Space", "Left", "Right", "Up", "Down",
     "Insert", "Enter", "End", "Delete", "e-acute"}

\* the counters that no widget bounds stay within the bounds of the model
WithinBounds(st) ==
    /\ st.formatted_log_state.filters_list_state.selected <= MaxSelected
    /\ Len(st.command_input_state.text) <= MaxText

\* render_loop is entered with a Log and a source, with or without the stdin
\* of a child process: Renderer::from_log
StartFrame ==
    /\ phase = "start"
    /\ \E t \in FrameDocs, stdin \in BOOLEAN :
          /\ log' = LogParse(t).log
          /\ root_state' = RootNew(LogParse(t).log, stdin)
    /\ phase' = "running"
    /\ kind' = "Any"
    /\ UNCHANGED <<ctor, file, seen, rx, watcher, lines, unparsed, sent,
                   changes, last>>
    /\ UNCHANGED inputVars
    /\ UNCHANGED threadVars

\* the first step of an iteration: Renderer::update_from polls the source
\* and, when it returned a Log, builds the Renderer anew with
\* root_state.with_log(new_log)
FrameUpdateFrom ==
    /\ phase = "running" /\ kind = "Any"
    /\ \E ret \in FrameRets :
          /\ log' = IF ret.some THEN ret.log ELSE log
          /\ root_state' = Updated(ret)
          /\ last' = [NoCall EXCEPT !.called = TRUE, !.prev = log, !.ret = ret]
    /\ phase' = "render"
    /\ UNCHANGED <<kind, ctor, file, seen, rx, watcher, lines, unparsed, sent,
                   changes>>
    /\ UNCHANGED inputVars
    /\ UNCHANGED threadVars

\* the character typed into the command input is U+00E9
TypedKey(st, key) ==
    (key \in CharKeys /\ st.selected_widget = "CommandInput") =>
        key = "e-acute"

\* the second step: Renderer::render updates the root state with the event
\* of the iteration, which nothing has read before, and draws the frame;
\* last is the update_log call of the iteration under way; the paragraphs
\* are scrolled by rows and left at their columns
FrameRender(key) ==
    /\ phase = "render" /\ kind = "Any"
    /\ TypedKey(root_state, key)
    /\ key = "Right" => ~ParagraphTakesKeys(root_state)
    /\ \E updated \in {RootUpdate(root_state, log, key)} :
          /\ WithinBounds(updated)
          /\ ~updated.command_input_state.panicked
          /\ \E height \in Heights : root_state' = RootRender(updated, height)
    /\ phase' = "running"
    /\ last' = NoCall
    /\ UNCHANGED <<kind, ctor, log, file, seen, rx, watcher, lines, unparsed,
                   sent, changes>>
    /\ UNCHANGED inputVars
    /\ UNCHANGED threadVars

\* the update of the root state panics: the thread unwinds out of
\* render_loop before anything is drawn
FramePanic(key) ==
    /\ phase = "render" /\ kind = "Any"
    /\ \E updated \in {RootUpdate(root_state, log, key)} :
          /\ updated.command_input_state.panicked
          /\ root_state' = updated
    /\ phase' = "panicked"
    /\ last' = NoCall
    /\ UNCHANGED <<kind, ctor, log, file, seen, rx, watcher, lines, unparsed,
                   sent, changes>>
    /\ UNCHANGED inputVars
    /\ UNCHANGED threadVars

NextFrame ==
    \/ StartFrame
    \/ FrameUpdateFrom
    \/ \E key \in FrameKeys : FrameRender(key)
    \/ \E key \in FrameKeys : FramePanic(key)

SpecFrame == Init /\ [][NextFrame]_vars

(* ------------------------------------------------------------------ *)
(* render_loop with the event of the iteration: the check for Ctrl+C   *)
(* comes before update_from and render                                 *)
(* ------------------------------------------------------------------ *)

\* KeyModifiers of the key events drawn
QuitModifiers == {{}, {"CONTROL"}, {"CONTROL", "SHIFT"}}

\* KeyCode of the key events drawn
QuitCodes == {"c", "i", "f", "Tab", "Esc", "Delete", "e-acute"}

\* AppEvent: the key events, a resize of the terminal, and Ping
QuitEvents ==
    [kind : {"Key"}, code : QuitCodes, modifiers : QuitModifiers]
        \cup {[kind |-> k, code |-> "", modifiers |-> {}] : k \in {"Resize", "Ping"}}

\* render_loop: key_event.code == KeyCode::Char('c') &&
\* key_event.modifiers == KeyModifiers::CONTROL
Breaks(event) ==
    /\ event.kind = "Key"
    /\ event.code = "c"
    /\ event.modifiers = {"CONTROL"}

\* the event as the widgets match it: they look at the code of a key event
\* only, and handle no other event
KeyOf(event) == IF event.kind = "Key" THEN event.code ELSE "Ping"

\* event_rx.recv(): the event of the iteration
QuitReceive ==
    /\ phase = "running" /\ kind = "Any"
    /\ \E event \in QuitEvents : events' = <<event>>
    /\ phase' = "received"
    /\ UNCHANGED <<kind, ctor, log, file, seen, rx, watcher, lines, unparsed,
                   sent, changes, last, root_state>>
    /\ UNCHANGED inputVars
    /\ UNCHANGED <<running, event_thread, reader, stream, dropped, late>>

\* the break of the loop: nothing is polled and nothing is drawn
QuitBreak ==
    /\ phase = "received"
    /\ Breaks(Head(events))
    /\ phase' = "quit"
    /\ UNCHANGED <<kind, ctor, log, file, seen, rx, watcher, lines, unparsed,
                   sent, changes, last, root_state>>
    /\ UNCHANGED inputVars
    /\ UNCHANGED threadVars

\* the rest of the iteration for an event that does not break: update_from,
\* then render with the event
QuitIterate ==
    /\ phase = "received"
    /\ ~Breaks(Head(events))
    /\ \E ret \in FrameRets, height \in Heights :
          /\ log' = IF ret.some THEN ret.log ELSE log
          /\ \E updated \in {RootUpdate(Updated(ret), log', KeyOf(Head(events)))} :
                /\ WithinBounds(updated)
                /\ ~updated.command_input_state.panicked
                /\ root_state' = RootRender(updated, height)
    /\ events' = <<>>
    /\ phase' = "running"
    /\ last' = NoCall
    /\ UNCHANGED <<kind, ctor, file, seen, rx, watcher, lines, unparsed, sent,
                   changes>>
    /\ UNCHANGED inputVars
    /\ UNCHANGED <<running, event_thread, reader, stream, dropped, late>>

\* the update of the root state panics after update_from: the thread
\* unwinds out of render_loop
QuitPanic ==
    /\ phase = "received"
    /\ ~Breaks(Head(events))
    /\ \E ret \in FrameRets :
          /\ log' = IF ret.some THEN ret.log ELSE log
          /\ \E updated \in {RootUpdate(Updated(ret), log', KeyOf(Head(events)))} :
                /\ updated.command_input_state.panicked
                /\ root_state' = updated
    /\ phase' = "panicked"
    /\ last' = NoCall
    /\ UNCHANGED <<kind, ctor, file, seen, rx, watcher, lines, unparsed, sent,
                   changes>>
    /\ UNCHANGED inputVars
    /\ UNCHANGED threadVars

NextQuit ==
    \/ StartFrame
    \/ QuitReceive
    \/ QuitBreak
    \/ QuitIterate
    \/ QuitPanic

SpecQuit == Init /\ [][NextQuit]_vars

(* ------------------------------------------------------------------ *)
(* events.rs and the threads: the event thread, the reader thread, the  *)
(* foreground loop that receives one event per iteration, and teardown  *)
(* ------------------------------------------------------------------ *)

\* events the event thread may be ahead of the foreground thread
MaxEvents == 2

\* stream items and file changes in one run with the threads
MaxThreadLines == 2

MaxThreadChanges == 2

\* AppEvent: Ping, a terminal event other than Ctrl+C, and Ctrl+C
AppEvents == {"Ping", "Key", "CtrlC"}

\* the lines the stream carries in a run with the threads
ThreadLines == {LineH, LineC}

\* while running.load(Ordering::Relaxed): the thread enters the loop body or
\* leaves read_events; it is not scheduled while MaxEvents events wait
EventCheck ==
    /\ event_thread = "check"
    /\ running => Len(events) < MaxEvents
    /\ event_thread' = IF running THEN "poll" ELSE "exited"
    /\ UNCHANGED <<phase, kind, ctor, log, file, seen, rx, watcher, lines,
                   unparsed, sent, changes, last, root_state, doc, filt, parsed>>
    /\ UNCHANGED <<events, running, reader, stream, dropped, late>>

\* an event thread that sends no Ping when poll times out
SentNoPing(chan, e) == IF e = "Ping" THEN chan ELSE Append(chan, e)

\* event_tx.send(..) on the unbounded channel
Sent(chan, e) == Append(chan, e)

\* the loop body of read_events: poll returns within POLL_INTERVAL, true
\* (the terminal event is read and sent) or false (Ping is sent)
EventSend ==
    /\ event_thread = "poll"
    /\ \E e \in AppEvents : events' = Sent(events, e)
    /\ event_thread' = "check"
    /\ late' = IF running THEN late ELSE late + 1
    /\ UNCHANGED <<phase, kind, ctor, log, file, seen, rx, watcher, lines,
                   unparsed, sent, changes, last, root_state, doc, filt, parsed>>
    /\ UNCHANGED <<running, reader, stream, dropped>>

\* one iteration of render_loop: event_rx.recv() returns the next event;
\* Ctrl+C breaks, any other event goes on to update_from and render
Iterate ==
    /\ phase = "running"
    /\ events # <<>>
    /\ events' = Tail(events)
    /\ UNCHANGED <<running, event_thread, reader, stream, dropped, late>>
    /\ IF Head(events) = "CtrlC"
       THEN /\ phase' = "quit"
            /\ UNCHANGED <<kind, ctor, log, file, seen, rx, watcher, lines,
                           unparsed, sent, changes, last, root_state, doc,
                           filt, parsed>>
       ELSE \/ FollowedIteration
            \/ StreamedIteration

\* the foreground thread takes the next event: the step of Iterate, seen
\* on the event channel alone
Receive == phase = "running" /\ events # <<>> /\ events' = Tail(events)

\* render_loop has returned: EventController::drop stores false in running
DropStore ==
    /\ phase \in {"quit", "error"}
    /\ dropped = "nothing"
    /\ running' = FALSE
    /\ dropped' = "joining"
    /\ UNCHANGED <<phase, kind, ctor, log, file, seen, rx, watcher, lines,
                   unparsed, sent, changes, last, root_state, doc, filt, parsed>>
    /\ UNCHANGED <<events, event_thread, reader, stream, late>>

\* a join that returns whether or not the thread has ended
JoinReturnsAtOnce(thread) == TRUE

\* handle.join() returns when the thread has ended
JoinReturns(thread) == thread = "exited"

\* EventController::drop returns
DropJoin ==
    /\ dropped = "joining"
    /\ JoinReturns(event_thread)
    /\ dropped' = "controller"
    /\ UNCHANGED <<phase, kind, ctor, log, file, seen, rx, watcher, lines,
                   unparsed, sent, changes, last, root_state, doc, filt, parsed>>
    /\ UNCHANGED <<events, running, event_thread, reader, stream, late>>

\* the LogSource is dropped after the controller: its receiver is gone, a
\* watcher callback waiting in tx.send gets Err and returns; the JoinHandle
\* of the reader thread is dropped without a join
DropSource ==
    /\ dropped = "controller"
    /\ dropped' = "source"
    /\ watcher' = WatcherIdle
    /\ UNCHANGED <<phase, kind, ctor, log, file, seen, rx, lines, unparsed,
                   sent, changes, last, root_state, doc, filt, parsed>>
    /\ UNCHANGED <<events, running, event_thread, reader, stream, late>>

\* the reader thread after the source is dropped: read_line returns a line
\* or an error, tx.send returns Err and unwrap ends the thread
ReaderSendDropped ==
    /\ kind = "Streamed"
    /\ dropped = "source"
    /\ reader = "read" /\ stream = "open"
    /\ reader' = "exited"
    /\ UNCHANGED <<phase, kind, ctor, log, file, seen, rx, watcher, lines,
                   unparsed, sent, changes, last, root_state, doc, filt, parsed>>
    /\ UNCHANGED <<events, running, event_thread, stream, dropped, late>>

\* the stream reaches its end: from then on read_line returns Ok(0) and the
\* reader thread goes round its loop (Ok(0) => continue) without a send
StreamEnd ==
    /\ kind = "Streamed"
    /\ phase \in {"running", "quit", "error"}
    /\ stream = "open"
    /\ stream' = "eof"
    /\ UNCHANGED <<phase, kind, ctor, log, file, seen, rx, watcher, lines,
                   unparsed, sent, changes, last, root_state, doc, filt, parsed>>
    /\ UNCHANGED <<events, running, event_thread, reader, dropped, late>>

\* get_source returns a Streamed or a Followed source
StartThreads ==
    \E c \in CtorArgs :
        /\ \/ c.stdin_flag /\ ~c.follow_flag /\ ~c.remote_flag
           \/ c.follow_flag /\ ~c.stdin_flag /\ ~c.remote_flag
                /\ c.pathOk /\ c.watchOk /\ c.file = FileOf(LineH)
        /\ Start(c)

ThreadLine == ReaderSendOf(ThreadLines, MaxThreadLines)

ThreadError == ReaderSendErrorTo(MaxThreadLines)

ThreadFileChange == FileChangeTo(WatchedStates, MaxThreadChanges)

NextThreads ==
    \/ StartThreads
    \/ ThreadLine
    \/ ThreadError
    \/ StreamEnd
    \/ ReaderSendDropped
    \/ ThreadFileChange
    \/ WatcherPoll
    \/ EventCheck
    \/ EventSend
    \/ Iterate
    \/ DropStore
    \/ DropJoin
    \/ DropSource

\* the threads that the operating system schedules keep running: the event
\* thread, the foreground thread (it takes the next event when one waits)
\* and the watcher's poll; nothing is assumed of the stream or of the file
SpecThreads ==
    /\ Init
    /\ [][NextThreads]_vars
    /\ WF_vars(EventCheck)
    /\ WF_vars(EventSend)
    /\ WF_events(Receive)
    /\ WF_vars(WatcherPoll)
    /\ WF_vars(DropStore)
    /\ WF_vars(DropJoin)
    /\ WF_vars(DropSource)

(* ------------------------------------------------------------------ *)
(* Properties                                                          *)
(* ------------------------------------------------------------------ *)

IsPrefix(a, b) == Len(a) <= Len(b) /\ Take(b, Len(a)) = a

IsSuffix(a, b) == Len(a) <= Len(b) /\ Drop(b, Len(b) - Len(a)) = a

RECURSIVE ConcatLines(_)
ConcatLines(items) ==
    IF items = <<>> THEN <<>> ELSE Head(items).text \o ConcatLines(Tail(items))

AllOk(items) == \A k \in 1..Len(items) : items[k].ok

CountOf(e, chan) == Cardinality({k \in 1..Len(chan) : chan[k] = e})

StreamedCall == last.called /\ kind = "Streamed"

FollowedCall == last.called /\ kind = "Followed"

\* the file could not be opened or did not parse when the last call read it
FileFailed(f) == ~f.present \/ ~parse(f.text).ok

\* C1: a Streamed poll that drained at least one line and whose re-parse
\* succeeded returns the previous raw text, then the text kept from failed
\* polls, then the drained lines in order and once each, and leaves the
\* buffer empty
C1_RawIsPrevKeptDrained ==
    (StreamedCall /\ last.drained # <<>> /\ last.ret.ok /\ last.ret.some) =>
        /\ last.ret.log.raw =
               (last.prev.raw \o last.buffer) \o ConcatLines(last.drained)
        /\ unparsed = <<>>

\* the first poll of the scenario has run: empty Log, empty buffer, "[00:0"
C2_AfterFirstPoll ==
    /\ StreamedCall
    /\ last.prev = LogEmpty
    /\ last.buffer = <<>>
    /\ last.drained = <<OkLine(FragA)>>

\* C2: from an empty Log, "[00:0" before the first poll and
\* "1:02 INFO X] hi\n" before the second: the first poll returns None and
\* the second a Log of exactly one message (00:01:02, Info, X, "hi")
C2_SplitHeaderAcrossPolls ==
    [][(/\ C2_AfterFirstPoll
        /\ lines = <<OkLine(FragB)>>
        /\ last'.drained = <<OkLine(FragB)>>)
       => /\ last.ret = RetNone
          /\ last'.ret.ok /\ last'.ret.some
          /\ last'.ret.log.messages =
                 <<Message(Timestamp(0, 1, 2), "Info", <<"X">>, <<"h", "i">>)>>]_vars

\* C3 as claimed: no update_log call of any variant returns an error, the
\* render loop never ends with one, and a call that yields no Log leaves the
\* consumer's Log as it was
C3_NoUpdateErrorReturned ==
    /\ phase # "error"
    /\ (last.called => last.ret.ok)
    /\ (last.called /\ ~last.ret.some => log = last.prev)

\* C3 amended: a failed open or parse (Followed) and a failed re-parse
\* (Streamed) are not returned and the Log is kept; an I/O error that the
\* Streamed reader thread forwarded is returned as Err and ends the loop,
\* the Log still being the one held before the call
C3_OnlyStreamErrorsReturned ==
    /\ (phase = "error" <=> (last.called /\ ~last.ret.ok))
    /\ (last.called /\ ~last.ret.ok =>
            /\ kind = "Streamed"
            /\ last.drained # <<>>
            /\ ~last.drained[Len(last.drained)].ok)
    /\ (StreamedCall /\ AllOk(last.drained) => last.ret.ok)
    /\ (StreamedCall /\ ~AllOk(last.drained) => ~last.ret.ok)
    /\ (FollowedCall \/ (last.called /\ kind = "Static") => last.ret.ok)
    /\ (last.called /\ ~last.ret.some => log = last.prev)

C3_Witness ==
    /\ StreamedCall
    /\ phase = "error"
    /\ ~AllOk(last.drained)
    /\ log = last.prev

\* C4: when the re-parse fails the call returns Ok(None) and the buffer
\* holds what it held before followed by text that ends with the drained
\* lines; a later poll that parses returns a raw text that starts with the
\* previous raw text and the kept buffer and ends with the newly drained lines
C4_FailedParseKeepsText ==
    /\ [](StreamedCall /\ last.drained # <<>> /\ AllOk(last.drained)
            /\ ~last.ret.some =>
            /\ last.ret = RetNone
            /\ log = last.prev
            /\ ~LogParse(last.prev.raw \o unparsed).ok
            /\ IsPrefix(last.buffer, unparsed)
            /\ IsSuffix(ConcatLines(last.drained), unparsed)
            /\ Len(unparsed) >= Len(last.buffer) + Len(ConcatLines(last.drained)))
    /\ [][(/\ phase = "running" /\ kind = "Streamed"
           /\ unparsed # <<>>
           /\ last' # last
           /\ last'.ret.some)
          => /\ IsPrefix(log.raw \o unparsed, last'.ret.log.raw)
             /\ IsSuffix(ConcatLines(last'.drained), last'.ret.log.raw)
             /\ Len(last'.ret.log.raw) >=
                    Len(log.raw) + Len(unparsed) + Len(ConcatLines(last'.drained))
             /\ unparsed' = <<>>]_vars

C4_Witness ==
    /\ StreamedCall
    /\ last.buffer # <<>>
    /\ last.drained # <<>>
    /\ last.ret.some
    /\ last.ret.log.messages # <<>>

\* C5: a Followed poll whose last drained event is Removed returns
\* Some(empty Log): raw "", no messages, no sources, whatever the previous
\* Log and the events before it
C5_RemovedLastResets ==
    (FollowedCall /\ last.drained # <<>>
        /\ last.drained[Len(last.drained)] = "Removed") =>
        /\ last.ret.ok /\ last.ret.some
        /\ last.ret.log.raw = <<>>
        /\ last.ret.log.messages = <<>>
        /\ Sources(last.ret.log) = {}
        /\ log = last.ret.log

C5_Witness ==
    /\ FollowedCall
    /\ last.drained = <<"Removed">>
    /\ last.prev.messages # <<>>
    /\ log.raw = <<>> /\ log.messages = <<>>

\* C6: a Followed poll that handled an Updated event while the file could
\* not be opened or parsed returns Ok; a Log it returns comes from a Removed
\* event and is empty; without a Removed event it returns None and the
\* consumer keeps its Log
C6_FailedRereadIgnored ==
    (FollowedCall /\ CountOf("Updated", last.drained) > 0
        /\ FileFailed(last.seenFile)) =>
        /\ last.ret.ok
        /\ phase # "error"
        /\ (last.ret.some =>
                CountOf("Removed", last.drained) > 0 /\ last.ret.log = LogEmpty)
        /\ (CountOf("Removed", last.drained) = 0 =>
                last.ret = RetNone /\ log = last.prev)

C6_Witness ==
    /\ FollowedCall
    /\ last.drained = <<"Updated">>
    /\ last.seenFile.present /\ ~parse(last.seenFile.text).ok
    /\ last.ret = RetNone
    /\ log = last.prev /\ log.messages # <<>>

\* C7 as claimed: a poll that finds two or more events pending, an Updated
\* among them, opens and parses the file exactly once
C7_OneRereadPerPoll ==
    (FollowedCall /\ Len(last.drained) >= 2
        /\ CountOf("Updated", last.drained) > 0) =>
        last.opens = 1 /\ last.parses <= 1

\* the Log the fold yields: the last event that produced one decides
C7_Expected(chan, f) ==
    LET ups  == {k \in 1..Len(chan) : chan[k] = "Updated" /\ ~FileFailed(f)}
        rems == {k \in 1..Len(chan) : chan[k] = "Removed"}
    IN  IF ups \cup rems = {} THEN RetNone
        ELSE IF \E k \in ups : \A j \in rems : j < k
        THEN RetSome(LogParse(f.text).log)
        ELSE RetSome(LogEmpty)

\* C7 amended: one poll handles every pending event, opens the file once
\* for each Updated event among them and parses it after each open that
\* succeeded, and returns at most one Log, that of the last event that
\* produced one
C7_RereadPerUpdatedEvent ==
    FollowedCall =>
        /\ last.opens = CountOf("Updated", last.drained)
        /\ last.parses = IF last.seenFile.present THEN last.opens ELSE 0
        /\ last.ret = C7_Expected(last.drained, last.seenFile)

C7_Witness ==
    /\ FollowedCall
    /\ Len(last.drained) >= 2
    /\ last.opens = 2 /\ last.parses = 2
    /\ last.ret.some

\* C8 as claimed: the watcher thread never waits in send, and the channel
\* never holds more than its capacity
C8_WatcherNeverWaits ==
    ~watcher.blocked /\ Len(rx) <= ChannelCap

\* C8 amended: the channel never holds more than 10 events; an event found
\* while it holds 10 is not dropped: the watcher thread waits in send with
\* that event, finds no further change meanwhile, and the event enters the
\* channel when the foreground thread has drained it
C8_FullChannelBlocksWatcher ==
    /\ [](Len(rx) <= ChannelCap)
    /\ [][phase = "running" /\ seen' # seen =>
            LET event == IF file.present THEN "Updated" ELSE "Removed"
            IN  /\ ~watcher.blocked
                /\ IF Len(rx) < ChannelCap
                   THEN rx' = Append(rx, event) /\ ~watcher'.blocked
                   ELSE rx' = rx /\ watcher' = [blocked |-> TRUE, event |-> event]]_vars
    /\ [][watcher.blocked /\ ~watcher'.blocked =>
            rx' = Append(rx, watcher.event)]_vars

C8_Witness ==
    /\ watcher.blocked
    /\ Len(rx) = ChannelCap
    /\ seen # file

\* the Log that construction returned, from the arguments of get_source
ConstructedLog ==
    IF ctor.remote_flag THEN LogParse(ctor.doc.text).log
    ELSE LogParse(ctor.file.text).log

\* C9: every update_log call of a StaticLogSource returns Ok(None), so the
\* Log held is the one construction returned, whatever happens to the file
C9_StaticNeverReplaces ==
    kind = "Static" =>
        /\ (last.called => last.ret = RetNone)
        /\ log = ConstructedLog
        /\ phase # "error"

C9_Witness ==
    /\ kind = "Static"
    /\ last.called
    /\ last.seenFile # ctor.file
    /\ last.seenFile.present /\ parse(last.seenFile.text).ok
    /\ log.raw = ctor.file.text

\* exactly one of the three source flags, or none of them
OnlyFollow(c) == c.follow_flag /\ ~c.stdin_flag /\ ~c.remote_flag

OnlyRemote(c) == c.remote_flag /\ ~c.stdin_flag /\ ~c.follow_flag

NoFlag(c) == ~c.remote_flag /\ ~c.stdin_flag /\ ~c.follow_flag

\* the initial open, parse, fetch or watch registration fails
ConstructionFails(c) ==
    \/ OnlyFollow(c) /\ (~c.watchOk \/ FileFailed(c.file))
    \/ NoFlag(c) /\ FileFailed(c.file)
    \/ OnlyRemote(c) /\ FileFailed(c.doc)

\* C10: when the initial open, the initial parse or the initial watch
\* registration fails, get_source returns the error: no source and no Log
\* exist and the render loop is never entered
C10_ConstructionErrorsFatal ==
    (phase # "start" /\ ConstructionFails(ctor)) =>
        /\ phase = "failed"
        /\ kind = "none"
        /\ log = LogEmpty
        /\ ~last.called

C10_Witness ==
    /\ phase = "failed"
    /\ OnlyFollow(ctor)
    /\ ~ctor.watchOk
    /\ ~FileFailed(ctor.file)

(* ------------------------------------------------------------------ *)
(* The line model of the format, to compare parse against              *)
(* ------------------------------------------------------------------ *)

\* s cut at the first occurrence of each separator in turn
RECURSIVE Cut(_, _)
Cut(s, seps) ==
    IF seps = <<>> THEN <<s>>
    ELSE <<Take(s, SpanTill(s, {Head(seps)}))>>
             \o Cut(Drop(s, SpanTill(s, {Head(seps)}) + 1), Tail(seps))

\* hh, mm, ss, the level keyword, the source and what follows "]" of a line
FieldsOf(line) == Cut(Drop(line, 1), <<":", ":", " ", " ", "]">>)

IsDigits(t) == t # <<>> /\ \A k \in 1..Len(t) : t[k] \in Digits

IsLevelTag(t) == \E k \in 1..Len(LevelTags) : LevelTags[k].tag = t

\* the line written from its fields: [HH:MM:SS LEVEL source] contents
HeaderText(f) ==
    <<"[">> \o f[1] \o <<":">> \o f[2] \o <<":">> \o f[3] \o <<" ">> \o f[4]
        \o <<" ">> \o f[5] \o <<"]">> \o f[6]

\* the header grammar of the format on one line: decimal digit runs, one of
\* the six keywords, a non-empty source without "]", then "] " and contents
FieldsAreHeader(line, f) ==
    /\ line = HeaderText(f)
    /\ IsDigits(f[1]) /\ IsDigits(f[2]) /\ IsDigits(f[3])
    /\ IsLevelTag(f[4])
    /\ f[5] # <<>>
    /\ HasTag(f[6], <<" ">>)

IsHeaderLine(line) == HasTag(line, <<"[">>) /\ FieldsAreHeader(line, FieldsOf(line))

\* every timestamp field of the header line is at most 255
FieldsFitU8(f) ==
    /\ DecimalValue(f[1]) <= U8Max
    /\ DecimalValue(f[2]) <= U8Max
    /\ DecimalValue(f[3]) <= U8Max

IsU8HeaderLine(line) == IsHeaderLine(line) /\ FieldsFitU8(FieldsOf(line))

\* the message that a header line stands for
MessageOfFields(f) ==
    Message(Timestamp(DecimalValue(f[1]), DecimalValue(f[2]), DecimalValue(f[3])),
            LevelTags[CHOOSE k \in 1..Len(LevelTags) : LevelTags[k].tag = f[4]].level,
            f[5], Drop(f[6], 1))

MessageOfLine(line) == MessageOfFields(FieldsOf(line))

\* the lines of a text that end with a line feed, without it
RECURSIVE TerminatedLines(_)
TerminatedLines(t) ==
    IF SpanTill(t, {NL}) = Len(t) THEN <<>>
    ELSE <<Take(t, SpanTill(t, {NL}))>>
             \o TerminatedLines(Drop(t, SpanTill(t, {NL}) + 1))

\* what follows the last line feed of a text
RECURSIVE TailOf(_)
TailOf(t) ==
    IF SpanTill(t, {NL}) = Len(t) THEN t
    ELSE TailOf(Drop(t, SpanTill(t, {NL}) + 1))

\* the first line of a text, terminated or not
FirstLine(t) == Take(t, SpanTill(t, {NL}))

\* every line of the text ends with a line feed and is a header line
AllHeaderLines(t) ==
    /\ TailOf(t) = <<>>
    /\ \A k \in 1..Len(TerminatedLines(t)) : IsHeaderLine(TerminatedLines(t)[k])

AllU8HeaderLines(t) ==
    /\ TailOf(t) = <<>>
    /\ \A k \in 1..Len(TerminatedLines(t)) : IsU8HeaderLine(TerminatedLines(t)[k])

MessagesOfLines(ls) == [k \in 1..Len(ls) |-> MessageOfLine(ls[k])]

\* C11 as claimed: a text of N lines, each a header line with decimal digit
\* runs of any value as timestamp, parses to N messages, the i-th with the
\* fields of the i-th line
C11_HeaderLinesGiveMessages ==
    (parsed.called /\ AllHeaderLines(doc)) =>
        /\ parsed.result.ok
        /\ parsed.result.messages = MessagesOfLines(TerminatedLines(doc))

\* C11 amended: a text of N lines, each ended by a line feed and each a
\* header line whose hour, minute and second are at most 255, parses to
\* exactly N messages, the i-th with the timestamp, level, source and
\* contents of the i-th line
C11_U8HeaderLinesGiveMessages ==
    (parsed.called /\ AllU8HeaderLines(doc)) =>
        /\ parsed.result.ok
        /\ Len(parsed.result.messages) = Len(TerminatedLines(doc))
        /\ parsed.result.messages = MessagesOfLines(TerminatedLines(doc))

C11_Witness ==
    /\ parsed.called
    /\ AllU8HeaderLines(doc)
    /\ Len(parsed.result.messages) = 3
    /\ parsed.result.messages[1] # parsed.result.messages[2]
    /\ parsed.result.messages[2] # parsed.result.messages[3]

\* C12: parse fails, and yields no message, for every text whose first line
\* is not a header line
C12_NonHeaderFirstLineFails ==
    (parsed.called /\ doc # <<>> /\ ~IsHeaderLine(FirstLine(doc))) =>
        /\ ~parsed.result.ok
        /\ parsed.result.messages = <<>>

\* the messages of a text by the line model: a header line opens a message,
\* every other line is appended to the contents of the message before it
RECURSIVE BlocksOf(_, _)
BlocksOf(ls, acc) ==
    IF ls = <<>> THEN acc
    ELSE IF IsU8HeaderLine(Head(ls))
    THEN BlocksOf(Tail(ls), Append(acc, MessageOfLine(Head(ls))))
    ELSE BlocksOf(Tail(ls),
                  [acc EXCEPT ![Len(acc)].contents = (@ \o <<NL>>) \o Head(ls)])

\* C13: the contents of every message that parse returns are the contents
\* of its header line followed by each non-header line up to the next header
\* line, joined with "\n"; the text of the scenario gives
\* (00:01:02, Info, SMAPI, "Loaded") and (00:01:03, Error, Mod.A,
\* "Boom\ndetails")
C13_ContentsJoinBlockLines ==
    (parsed.called /\ parsed.result.ok /\ TerminatedLines(doc) # <<>>) =>
        /\ IsU8HeaderLine(TerminatedLines(doc)[1])
        /\ parsed.result.messages = BlocksOf(TerminatedLines(doc), <<>>)

\* C14: the by-source index entry of every source is the sequence of all
\* messages of that source, in document order
C14_IndexHoldsEveryMessage ==
    (parsed.called /\ parsed.log.ok) =>
        \A s \in DOMAIN parsed.log.log.by_source :
            LET entry == parsed.log.log.by_source[s]
                msgs  == parsed.log.log.messages
            IN  /\ \A n \in 1..(Len(entry) - 1) : entry[n] < entry[n + 1]
                /\ {entry[n] : n \in 1..Len(entry)} =
                       {k \in 1..Len(msgs) : msgs[k].source = s}

\* C20: when parse succeeds no part of the text is left out: nothing
\* remains after the last line that the fold consumed
C20_SuccessCoversWholeText ==
    (parsed.called /\ parsed.result.ok) => parse_log(doc).rest = <<>>

(* ------------------------------------------------------------------ *)
(* Filters and views                                                   *)
(* ------------------------------------------------------------------ *)

\* the flag of key in a filter map: disabled only by an entry that says so
EnabledIn(map, key) ==
    \A n \in 1..Len(map) : map[n].key = key => map[n].enabled

HasEntry(map, key) == \E n \in 1..Len(map) : map[n].key = key

IsAscending(idx) == \A n \in 1..(Len(idx) - 1) : idx[n] < idx[n + 1]

\* C15: apply yields exactly the messages whose level flag and source flag
\* are both enabled, in document order, a level or a source without an
\* entry counting as enabled
C15_ApplyKeepsEnabled ==
    (parsed.called /\ parsed.log.ok) =>
        /\ IsAscending(parsed.kept)
        /\ {parsed.kept[n] : n \in 1..Len(parsed.kept)} =
               {k \in 1..Len(parsed.log.log.messages) :
                   /\ EnabledIn(filt.levels, parsed.log.log.messages[k].level)
                   /\ EnabledIn(filt.sources, parsed.log.log.messages[k].source)}

C15_Witness ==
    /\ parsed.called
    /\ doc = Mixed
    /\ ~HasEntry(filt.levels, "Info")
    /\ ~HasEntry(filt.sources, <<"X">>)
    /\ HasEntry(filt.levels, "Error") /\ ~EnabledIn(filt.levels, "Error")
    /\ HasEntry(filt.sources, <<"Y">>) /\ ~EnabledIn(filt.sources, <<"Y">>)
    /\ parsed.kept = <<1>>

\* C16: with_log keeps the flag of every source that the old filters and
\* the new Log both have, enables every source that the old filters do not
\* have, and leaves the level flags as they were
C16_ReconcileKeepsFlags ==
    (parsed.called /\ parsed.log.ok) =>
        /\ parsed.reconciled.levels = filt.levels
        /\ \A s \in Sources(parsed.log.log) :
              /\ Cardinality({n \in 1..Len(parsed.reconciled.sources) :
                                 parsed.reconciled.sources[n].key = s}) = 1
              /\ EnabledIn(parsed.reconciled.sources, s) =
                     (HasEntry(filt.sources, s) => EnabledIn(filt.sources, s))

C16_Witness ==
    /\ parsed.called
    /\ doc = Mixed
    /\ HasEntry(filt.sources, <<"X">>) /\ ~EnabledIn(filt.sources, <<"X">>)
    /\ ~HasEntry(filt.sources, <<"Y">>)
    /\ ~EnabledIn(filt.levels, "Warn")
    /\ ~EnabledIn(parsed.reconciled.sources, <<"X">>)
    /\ HasEntry(parsed.reconciled.sources, <<"Y">>)
    /\ EnabledIn(parsed.reconciled.sources, <<"Y">>)
    /\ ~EnabledIn(parsed.reconciled.levels, "Warn")

\* the filters of the formatted log view
ViewFilters == root_state.formatted_log_state.filters

\* C17: once the root state is built, filters.sources lists exactly the
\* distinct sources of the Log held, each once and in ascending order, and
\* filters.levels has one entry for each of the six levels
C17_SourcesSortedDistinct ==
    root_state.built =>
        /\ {ViewFilters.sources[n].key : n \in 1..Len(ViewFilters.sources)} =
               {log.messages[k].source : k \in 1..Len(log.messages)}
        /\ \A n \in 1..(Len(ViewFilters.sources) - 1) :
               StrLess(ViewFilters.sources[n].key, ViewFilters.sources[n + 1].key)
        /\ Len(ViewFilters.levels) = Len(LevelAll)
        /\ \A n \in 1..Len(LevelAll) : ViewFilters.levels[n].key = LevelAll[n]

C17_Witness ==
    /\ root_state.built
    /\ log = LogParse(Scenario).log
    /\ Len(ViewFilters.sources) = 2
    /\ ViewFilters.sources[1].key = <<"M", "o", "d", ".", "A">>
    /\ ~ViewFilters.sources[2].enabled
    /\ ~EnabledIn(ViewFilters.levels, "Info")

AllLevelsOff == \A n \in 1..Len(ViewFilters.levels) : ~ViewFilters.levels[n].enabled

AllFlagsOn ==
    /\ \A n \in 1..Len(ViewFilters.levels) : ViewFilters.levels[n].enabled
    /\ \A n \in 1..Len(ViewFilters.sources) : ViewFilters.sources[n].enabled

EveryMessage == [k \in 1..Len(log.messages) |-> k]

\* C18: with every level disabled no message passes the filters and no line
\* is shown, whatever the source flags; with every level and every source
\* enabled the messages that pass are messages() of the Log held, and their
\* lines are shown
C18_AllOffEmptyAllOnFull ==
    root_state.built =>
        /\ AllLevelsOff =>
              /\ apply(ViewFilters, log) = <<>>
              /\ root_state.formatted_log_state.lines = <<>>
        /\ AllFlagsOn =>
              /\ apply(ViewFilters, log) = EveryMessage
              /\ root_state.formatted_log_state.lines = FormatFrom(log, EveryMessage)

C18_Witness ==
    /\ root_state.built
    /\ AllLevelsOff
    /\ log = LogParse(Mixed).log
    /\ ViewFilters.sources[1].enabled
    /\ ~ViewFilters.sources[2].enabled

\* the Log is the one that Log::parse builds from its raw text
FullyBuilt(l) == l = LogParse(l.raw).log

\* C19: the renderer holds one fully built Log, after an iteration either
\* the Log held before or the one the source returned, and the formatted
\* lines, the raw lines and the source list of the filters are those of
\* that Log under the filters held
C19_ViewsOfHeldLog ==
    /\ [](root_state.built =>
            /\ FullyBuilt(log)
            /\ root_state.formatted_log_state.lines =
                   format_lines(log, ViewFilters).lines
            /\ root_state.formatted_log_state.source_width =
                   format_lines(log, ViewFilters).source_width
            /\ root_state.raw_log_state.lines = StrLines(log.raw)
            /\ [n \in 1..Len(ViewFilters.sources) |-> ViewFilters.sources[n].key] =
                   SortedOf(Sources(log)))
    /\ [][phase = "running" =>
            \/ log' = log
            \/ \E ret \in ViewRets : ret.some /\ log' = ret.log]_vars

C19_Witness ==
    /\ root_state.built
    /\ log = LogParse(Mixed).log
    /\ ~EnabledIn(ViewFilters.sources, <<"Y">>)
    /\ root_state.formatted_log_state.lines =
           <<[start |-> TRUE, message |-> 1, line |-> <<"h", "i">>]>>
    /\ Len(root_state.raw_log_state.lines) = 4

(* ------------------------------------------------------------------ *)
(* The iterations of render_loop and the threads beside it             *)
(* ------------------------------------------------------------------ *)

\* a step that leaves render_loop running or ends it with an error: no
\* Ctrl+C; it is an iteration when it takes items from a channel
NoQuitStep == phase = "running" /\ phase' # "quit"

\* a channel after a step: untouched or appended to by the thread that
\* sends on it, or emptied by the update_log that received from it
Consumed(chan, after) == after = <<>> \/ IsPrefix(chan, after)

\* the Log after a step is the Log before it or the one update_log returned
ReplacedOnce == log' = log \/ (last'.ret.some /\ log' = last'.ret.log)

\* C21 as stated: in every iteration of render_loop that does not quit, the
\* one update_log call takes every file event and every stream line that was
\* pending, and the Log is replaced at most once
C21_IterationDrainsAll ==
    [][NoQuitStep =>
          /\ Consumed(rx, rx')
          /\ Consumed(lines, lines')
          /\ ReplacedOnce]_vars

\* C21 amended: the same for every iteration whose update_log call returns
\* Ok; a call that returns the Err of a stream item leaves the later items
\* in the channel, and render_loop ends
C21_OkIterationDrainsAll ==
    [][NoQuitStep /\ phase' = "running" =>
          /\ Consumed(rx, rx')
          /\ Consumed(lines, lines')
          /\ ReplacedOnce]_vars

\* an iteration took two or more pending items and replaced the Log once
C21_Witness ==
    /\ phase = "running"
    /\ last.called
    /\ Len(last.drained) >= 2
    /\ last.ret.some
    /\ log = last.ret.log
    /\ log # last.prev
    /\ rx = <<>> /\ lines = <<>>

\* C22: once render_loop has ended and the LogSource is dropped, the reader
\* thread of a Streamed source eventually exits, whatever the stream does
C22_ReaderExitsAfterDrop ==
    (dropped = "source" /\ kind = "Streamed") ~> (reader = "exited")

\* EventController::drop has returned
ControllerDropped == dropped \in {"controller", "source"}

\* C23: after drop has set running to false the event thread sends at most
\* one more event and exits; drop returns only when the thread has exited,
\* and no event is sent after drop has returned
C23_EventThreadStopsWithDrop ==
    /\ [](late <= 1)
    /\ [](ControllerDropped => event_thread = "exited")
    /\ [][ControllerDropped => events' = events]_vars
    /\ (dropped = "joining") ~> (event_thread = "exited")

\* drop has returned after the thread sent one more event and exited
C23_Witness ==
    /\ dropped = "controller"
    /\ late = 1
    /\ event_thread = "exited"
    /\ ~running

\* C24: while render_loop runs, an event is eventually there to receive, and
\* every stream item and every file event queued is eventually taken by an
\* update_log call, unless render_loop ends first
C24_EventsKeepLoopGoing ==
    /\ (phase = "running") ~> (events # <<>>)
    /\ (phase = "running" /\ lines # <<>>) ~> (lines = <<>> \/ phase # "running")
    /\ (phase = "running" /\ rx # <<>>) ~> (rx = <<>> \/ phase # "running")

\* an iteration woken by an event has taken the stream items that waited
C24_Witness ==
    /\ phase = "running"
    /\ kind = "Streamed"
    /\ last.called
    /\ Len(last.drained) >= 1
    /\ lines = <<>>
    /\ sent = MaxThreadLines

\* C25: no update_log call opens or reads a file on the thread that calls it
C25_UpdateLogReadsNoFile == last.called => last.opens = 0

\* C26: an update_log call made while no event and no line is pending
\* returns None, opens no file and parses nothing, also after a call whose
\* open or parse failed; a file is opened or a text parsed only by a call
\* that received an event or a line
C26_NoRetryWithoutEvent ==
    /\ last.called /\ last.drained = <<>> =>
          /\ last.ret = RetNone
          /\ last.opens = 0
          /\ last.parses = 0
          /\ log = last.prev
          /\ (kind = "Streamed" => unparsed = last.buffer)
    /\ last.called /\ (last.opens > 0 \/ last.parses > 0) => last.drained # <<>>

\* a Streamed call with nothing pending, made after a re-parse failed: the
\* text that did not parse is still held
C26_Witness ==
    /\ phase = "running"
    /\ kind = "Streamed"
    /\ last.called
    /\ last.drained = <<>>
    /\ last.buffer # <<>>
    /\ ~parse(last.prev.raw \o last.buffer).ok
    /\ last.ret = RetNone

(* ------------------------------------------------------------------ *)
(* The Log and the header grammar                                       *)
(* ------------------------------------------------------------------ *)

\* the source names that occur in a sequence of messages
NamesIn(msgs) == {msgs[k].source : k \in 1..Len(msgs)}

\* C27: a Log built from a text t has raw() = t and messages() = parse(t),
\* and sources() yields the source names of messages(), each once, and no
\* other name
C27_AccessorsAgree ==
    parsed.called /\ parsed.log.ok =>
        /\ parsed.result.ok
        /\ parsed.log.log.raw = doc
        /\ parsed.log.log.messages = parse(doc).messages
        /\ Sources(parsed.log.log) = NamesIn(parsed.log.log.messages)

\* a Log of three messages of two sources, one source before and after the other
C27_Witness ==
    /\ parsed.called /\ parsed.log.ok
    /\ Len(parsed.log.log.messages) = 3
    /\ parsed.log.log.messages[1].source = parsed.log.log.messages[3].source
    /\ parsed.log.log.messages[1].source # parsed.log.log.messages[2].source
    /\ Cardinality(Sources(parsed.log.log)) = 2

\* the terminated lines of doc that have the form of a header line
HeaderFormLines ==
    {k \in 1..Len(TerminatedLines(doc)) : IsHeaderLine(TerminatedLines(doc)[k])}

\* parse_message accepts the line with the values of its digit runs
AcceptedAsHeader(line) ==
    /\ parse_message(line \o <<NL>>).ok
    /\ parse_message(line \o <<NL>>).val = MessageOfLine(line)
    /\ parse_message(line \o <<NL>>).rest = <<NL>>

\* the line parser takes the whole line as a continuation line
TakenAsContinuation(line) ==
    /\ ~parse_message(line \o <<NL>>).ok
    /\ ParseLine(line \o <<NL>>).ok
    /\ ~ParseLine(line \o <<NL>>).start
    /\ ParseLine(line \o <<NL>>).text = line

\* C28: a line of the header form, ended by a line feed, is accepted as a
\* header with the values of its hour, minute and second when all three are
\* at most 255, whatever they are otherwise (99:99:99); when one of them is
\* above 255 it is not accepted with the value reduced modulo 256 but taken
\* as a continuation line, and parse fails when it is the first line
C28_TimestampFieldsAreU8 ==
    parsed.called =>
        \A k \in HeaderFormLines :
            /\ FieldsFitU8(FieldsOf(TerminatedLines(doc)[k])) =>
                  AcceptedAsHeader(TerminatedLines(doc)[k])
            /\ ~FieldsFitU8(FieldsOf(TerminatedLines(doc)[k])) =>
                  /\ TakenAsContinuation(TerminatedLines(doc)[k])
                  /\ (k = 1 => ~parsed.result.ok)
                  /\ (k = 2 /\ Len(TerminatedLines(doc)) = 2
                          /\ IsU8HeaderLine(TerminatedLines(doc)[1]) =>
                        /\ parsed.result.ok
                        /\ Len(parsed.result.messages) = 1
                        /\ parsed.result.messages[1].contents =
                               (Drop(FieldsOf(TerminatedLines(doc)[1])[6], 1)
                                    \o <<NL>>) \o TerminatedLines(doc)[2])

\* 99:99:99 is accepted as the first line
C28_Witness ==
    /\ parsed.called
    /\ doc = StampLine(<<"9", "9">>, <<"9", "9">>, <<"9", "9">>)
    /\ parsed.result.ok
    /\ Len(parsed.result.messages) = 1
    /\ parsed.result.messages[1].timestamp = Timestamp(99, 99, 99)

\* the text from the start of its line n + 1
RECURSIVE FromLine(_, _)
FromLine(t, n) ==
    IF n = 0 THEN t ELSE FromLine(Drop(t, SpanTill(t, {NL}) + 1), n - 1)

\* the line parser, applied where line k of doc starts, opens a message
OpensMessage(k) ==
    ParseLine(FromLine(doc, k - 1)).ok /\ ParseLine(FromLine(doc, k - 1)).start

\* the line parser, applied where line k of doc starts, takes that line as a
\* continuation line
ContinuesMessage(k) ==
    /\ ParseLine(FromLine(doc, k - 1)).ok
    /\ ~ParseLine(FromLine(doc, k - 1)).start
    /\ ParseLine(FromLine(doc, k - 1)).text = TerminatedLines(doc)[k]

\* line k of doc has a "]"
ClosesSource(k) == \E n \in 1..Len(TerminatedLines(doc)[k]) : TerminatedLines(doc)[k][n] = "]"

\* C29: a line opens a message only if it is a header line: its level is one
\* of the six keywords in upper case, its source is a non-empty run without
\* "]" and the "]" is followed by a space (the contents may be empty); a line
\* that is not a header line is taken as a continuation line
C29_OnlyHeaderLinesOpenMessages ==
    parsed.called =>
        \A k \in 1..Len(TerminatedLines(doc)) :
            /\ OpensMessage(k) => IsU8HeaderLine(TerminatedLines(doc)[k])
            /\ ~IsU8HeaderLine(TerminatedLines(doc)[k]) => ContinuesMessage(k)

\* the grammar holds line by line for the lines that have a "]"
ClosedLinesFollowGrammar ==
    parsed.called =>
        \A k \in 1..Len(TerminatedLines(doc)) :
            ClosesSource(k) =>
                /\ OpensMessage(k) <=> IsU8HeaderLine(TerminatedLines(doc)[k])
                /\ ~IsU8HeaderLine(TerminatedLines(doc)[k]) => ContinuesMessage(k)

(* ------------------------------------------------------------------ *)
(* The root state over a replacement of the Log                        *)
(* ------------------------------------------------------------------ *)

\* update_from has installed a new Log in this step
Installs == phase = "running" /\ phase' = "render" /\ last'.ret.some

\* the state of the user interface that is not derived from the Log
FrameOf(st) ==
    [selected_tab |-> st.selected_tab,
     selected_widget |-> st.selected_widget,
     command_input_state |-> st.command_input_state,
     levels |-> st.formatted_log_state.filters.levels,
     filters_list_state |-> st.formatted_log_state.filters_list_state,
     formatted_offset |-> st.formatted_log_state.paragraph_state.offset,
     raw_offset |-> st.raw_log_state.paragraph_state.offset]

\* the lines, the line counts and the source list are those of the Log l
DerivedFrom(st, l) ==
    /\ st.formatted_log_state.lines =
           format_lines(l, st.formatted_log_state.filters).lines
    /\ st.formatted_log_state.paragraph_state.lines =
           Len(st.formatted_log_state.lines)
    /\ st.raw_log_state.lines = StrLines(l.raw)
    /\ st.raw_log_state.paragraph_state.lines = Len(st.raw_log_state.lines)
    /\ [n \in 1..Len(st.formatted_log_state.filters.sources) |->
           st.formatted_log_state.filters.sources[n].key] = SortedOf(Sources(l))

\* C30: when update_from installs a new Log, the selected tab, the focused
\* widget, the text, cursor and edit mode of the command input, the level
\* flags, the open state and selected index of the filter list and the
\* scroll offsets of the formatted and the raw view keep their values; the
\* lines, the line counts and the source list are recomputed from the new Log
C30_InstallKeepsFrame ==
    [][Installs => /\ FrameOf(root_state') = FrameOf(root_state)
                   /\ DerivedFrom(root_state', log')]_vars

\* a Log with other lines has been installed under a root state in which
\* every part of the frame is off its initial value
C30_Witness ==
    /\ phase = "render"
    /\ last.ret.some
    /\ log = last.ret.log
    /\ Len(StrLines(log.raw)) # Len(StrLines(last.prev.raw))
    /\ root_state.selected_tab = "RawLog"
    /\ root_state.selected_widget = "CommandInput"
    /\ root_state.command_input_state.text # <<>>
    /\ root_state.command_input_state.cursor > 0
    /\ root_state.command_input_state.edit_mode = "Overwrite"
    /\ ~root_state.formatted_log_state.filters.levels[1].enabled
    /\ root_state.formatted_log_state.filters_list_state.open
    /\ root_state.formatted_log_state.filters_list_state.selected > 0
    /\ root_state.formatted_log_state.paragraph_state.offset.y > 0
    /\ root_state.raw_log_state.paragraph_state.offset.y > 0

(* ------------------------------------------------------------------ *)
(* The root state under key events                                     *)
(* ------------------------------------------------------------------ *)

\* C31: a source that the Log held in between does not have comes back
\* enabled when a later Log has it again, whatever flag it had before; a
\* source that the Log held in between has keeps its flag over both
\* replacements
C31_AbsentSourceReturnsEnabled ==
    (parsed.called /\ parsed.log.ok) =>
        \A k \in 1..Len(BetweenLogs) :
            \A s \in Sources(parsed.log.log) :
                /\ HasEntry(parsed.returned[k].sources, s)
                /\ s \notin Sources(BetweenLogs[k]) =>
                       EnabledIn(parsed.returned[k].sources, s)
                /\ s \in Sources(BetweenLogs[k]) =>
                       (EnabledIn(parsed.returned[k].sources, s) =
                            (HasEntry(filt.sources, s) => EnabledIn(filt.sources, s)))

\* X and Y are disabled; over the empty Log both come back enabled, over the
\* Log that has Y only X comes back enabled and Y stays disabled
C31_Witness ==
    /\ parsed.called
    /\ doc = Mixed
    /\ HasEntry(filt.sources, <<"X">>) /\ ~EnabledIn(filt.sources, <<"X">>)
    /\ HasEntry(filt.sources, <<"Y">>) /\ ~EnabledIn(filt.sources, <<"Y">>)
    /\ EnabledIn(parsed.returned[1].sources, <<"X">>)
    /\ EnabledIn(parsed.returned[1].sources, <<"Y">>)
    /\ EnabledIn(parsed.returned[2].sources, <<"X">>)
    /\ ~EnabledIn(parsed.returned[2].sources, <<"Y">>)

\* C32: the focus is on the command input only if RootState holds a command
\* input, so that without one the key 'i' leaves the focus on the log view
C32_FocusOnlyOnExistingInput ==
    root_state.selected_widget = "CommandInput" =>
        root_state.command_input_state.some

\* the command input has the focus and RootState holds one
InputFocused(st) ==
    st.selected_widget = "CommandInput" /\ st.command_input_state.some

\* the step is the update and the draw of an iteration
Updates == phase = "render" /\ phase' = "running"

\* the step is the update of the root state with the key Enter
Entered ==
    /\ Updates
    /\ \E height \in Heights :
          root_state' = RootRender(RootUpdate(root_state, log, "Enter"), height)

\* C33: each Enter in the focused command input submits the text as one
\* command, clears the text and sets the cursor to 0; the update of the root
\* state writes the command once, followed by "\n", to the child's stdin in
\* the same update and writes nothing else, and the queue of the submitted
\* commands is empty after every update
C33_EnterSubmitsAndSends ==
    [][/\ Updates => root_state'.command_input_state.submitted = <<>>
       /\ (Entered /\ InputFocused(root_state)) =>
              /\ root_state'.command_input_state.stdin =
                     root_state.command_input_state.text \o <<"\n">>
              /\ root_state'.command_input_state.text = <<>>
              /\ root_state'.command_input_state.cursor = 0
       /\ (Updates /\ root_state'.command_input_state.stdin # <<>>) =>
              /\ InputFocused(root_state)
              /\ root_state'.command_input_state.stdin =
                     root_state.command_input_state.text \o <<"\n">>
              /\ root_state'.command_input_state.text = <<>>]_vars

\* a command of one character has been typed, submitted and written with
\* its line end
C33_Witness ==
    /\ phase = "running"
    /\ InputFocused(root_state)
    /\ root_state.command_input_state.stdin = <<"U+00E9", "\n">>
    /\ root_state.command_input_state.submitted = <<>>
    /\ root_state.command_input_state.text = <<>>
    /\ root_state.command_input_state.cursor = 0

\* C34: after any sequence of key events the cursor of the command input is
\* a character index between 0 and the number of characters of the text,
\* and no edit operation has indexed the text outside its bounds
C34_CursorWithinText ==
    /\ root_state.command_input_state.cursor >= 0
    /\ root_state.command_input_state.cursor <=
           Len(root_state.command_input_state.text)
    /\ ~root_state.command_input_state.panicked

(* ------------------------------------------------------------------ *)
(* The end of render_loop                                              *)
(* ------------------------------------------------------------------ *)

\* the event received is the key 'c' with CONTROL as its only modifier
IsCtrlC ==
    /\ events # <<>>
    /\ Head(events).kind = "Key"
    /\ Head(events).code = "c"
    /\ Head(events).modifiers = {"CONTROL"}

\* C35: Ctrl+C, the key 'c' with the modifiers exactly CONTROL, ends
\* render_loop in the iteration that receives it, in every state of the
\* widgets, without the source polled or a frame drawn; no other key and no
\* other event ends the loop
C35_OnlyCtrlCEndsTheLoop ==
    [][/\ (phase = "received" /\ IsCtrlC) =>
              /\ phase' = "quit"
              /\ UNCHANGED <<log, root_state, last>>
       /\ (phase = "received" /\ ~IsCtrlC) => phase' = "running"
       /\ phase' \in {"quit", "panicked"} => (phase = "received" /\ IsCtrlC)]_vars

\* C36: every iteration of render_loop in which update_from installs a new
\* Log draws a frame from that Log in the same iteration, whatever the event
\* is, a Ping that no widget handles included
C36_InstallDrawsFrame ==
    [][(phase = "render" /\ last.ret.some) =>
           /\ phase' = "running"
           /\ log' = last.ret.log
           /\ DerivedFrom(root_state', last.ret.log)]_vars

(* ------------------------------------------------------------------ *)
(* The filter list of the formatted log                                *)
(* ------------------------------------------------------------------ *)

\* the formatted log state that the key event found
Before(list) == FormattedOver(parsed.log.log, filt, list)

\* the entries of the list shown
Shown(filters, list) ==
    IF list.source = "Levels" THEN filters.levels ELSE filters.sources

\* the entries of the list not shown
Hidden(filters, list) ==
    IF list.source = "Levels" THEN filters.sources ELSE filters.levels

\* the flag at the selected index, and no other flag of the list, is flipped
FlippedAtSelected(before, after, selected) ==
    /\ Len(after) = Len(before)
    /\ \A n \in 1..Len(before) :
          /\ after[n].key = before[n].key
          /\ after[n].enabled =
                 IF n = selected + 1 THEN ~before[n].enabled ELSE before[n].enabled

\* C37: 'f' opens the filter list on the levels when it is closed and
\* otherwise switches between levels and sources with the index 0 selected;
\* Esc closes the list; Space with the list open flips the flag at the
\* selected index of the list shown, leaves every other flag of the levels
\* and the sources as it was and recomputes the lines; with the list closed
\* Space changes no flag
C37_FilterListKeys ==
    (parsed.called /\ doc \in ViewDocs) =>
        \A list \in ListInputs :
            /\ parsed.updated[<<list, "f">>].filters_list_state =
                   IF ~list.open THEN ListLevels
                   ELSE IF list.source = "Levels" THEN ListSources ELSE ListLevels
            /\ parsed.updated[<<list, "f">>].filters = Before(list).filters
            /\ parsed.updated[<<list, "Esc">>].filters_list_state = NoList
            /\ parsed.updated[<<list, "Esc">>].filters = Before(list).filters
            /\ ~list.open =>
                   parsed.updated[<<list, "Space">>].filters = Before(list).filters
            /\ list.open =>
                   /\ FlippedAtSelected(
                          Shown(Before(list).filters, list),
                          Shown(parsed.updated[<<list, "Space">>].filters, list),
                          list.selected)
                   /\ Hidden(parsed.updated[<<list, "Space">>].filters, list) =
                          Hidden(Before(list).filters, list)
                   /\ parsed.updated[<<list, "Space">>].filters_list_state = list
                   /\ parsed.updated[<<list, "Space">>].lines =
                          format_lines(parsed.log.log,
                              parsed.updated[<<list, "Space">>].filters).lines

\* Space on the second entry of the source list has disabled the source Y of
\* a Log with the sources X and Y, and the lines shown have changed
C37_Witness ==
    /\ parsed.called
    /\ doc = Mixed
    /\ EnabledIn(Before(ListSources).filters.sources, <<"Y">>)
    /\ ~EnabledIn(parsed.updated[<<[ListSources EXCEPT !.selected = 1],
                                   "Space">>].filters.sources, <<"Y">>)
    /\ EnabledIn(parsed.updated[<<[ListSources EXCEPT !.selected = 1],
                                  "Space">>].filters.sources, <<"X">>)
    /\ parsed.updated[<<[ListSources EXCEPT !.selected = 1], "Space">>].lines
           # Before(ListSources).lines

(* ------------------------------------------------------------------ *)
(* The lines of the formatted log                                      *)
(* ------------------------------------------------------------------ *)

\* the messages of the Start lines, in the order of the lines
StartMessages(fl) ==
    [n \in 1..Len(SelectSeq(fl, LAMBDA ln : ln.start)) |->
        SelectSeq(fl, LAMBDA ln : ln.start)[n].message]

\* C38: format_lines gives, for every message that passes the filters and in
\* the order of the messages, one Start line followed by one Continued line
\* for each further line of its contents, so that there are as many Start
\* lines as messages kept, messages with empty contents included
C38_OneStartLinePerMessage ==
    (parsed.called /\ parsed.log.ok) =>
        /\ StartMessages(parsed.formatted) =
               apply(parsed.reconciled, parsed.log.log)
        /\ \A n \in 1..Len(parsed.formatted) :
               parsed.formatted[n].start =
                   (n = 1 \/ parsed.formatted[n - 1].message
                                 # parsed.formatted[n].message)
        /\ \A n \in 1..(Len(parsed.formatted) - 1) :
               parsed.formatted[n].message <= parsed.formatted[n + 1].message

(* ------------------------------------------------------------------ *)
(* The offset of a paragraph and its scrollbar                         *)
(* ------------------------------------------------------------------ *)

\* render has left the offset so that the lines shown are lines of the text
OffsetClamped ==
    /\ parsed.state.lines > doc.height =>
           parsed.state.offset.y + doc.height <= parsed.state.lines
    /\ parsed.state.lines <= doc.height => parsed.state.offset.y = 0

\* C39: for every line count, height and offset, render clamps offset.y so
\* that offset.y + height <= lines when lines > height and offset.y = 0
\* otherwise, and the assertions of Scrollbar::new hold for the scrollbar
\* that render builds from the clamped state
C39_ScrollbarAssertionsHold ==
    parsed.called => (OffsetClamped /\ ~parsed.scrollbar.panicked)
====
